---- MODULE Spec2Model ----
(***************************************************************************)
(* A model of the perps-indexer ingestion pipeline: the idempotent bulk    *)
(* writer (store.rs), the hourly archive fetcher (s3_source.rs) and the    *)
(* backfill / continuous coordinators (pipeline.rs).                       *)
(*                                                                         *)
(* Conventions                                                             *)
(*  - time is an integer number of ticks; an hour holds TicksPerHour ticks *)
(*    and a day HoursPerDay hours (DateTime<Utc> values are ticks);        *)
(*  - an f64 is a tagged value: Fin(n) is the finite number n * 10^-11,    *)
(*    NaN and Inf are the two kinds of non-finite value f64 parsing        *)
(*    accepts; Option<f64>::None is NoneF;                                 *)
(*  - a NUMERIC(20,10) column value is Fin(n) with n a multiple of 10,     *)
(*    NaN, or NullV (SQL NULL);                                            *)
(*  - the fills table is the sequence of its rows in insertion order (the  *)
(*    auto-generated id of a row is its position);                         *)
(*  - a user address is numbered.                                           *)
(***************************************************************************)
EXTENDS Integers, Sequences, FiniteSets, TLC

VARIABLES
    fills,        \* the fills table: a sequence of rows
    ckpt,         \* the ingest_checkpoints row of source "s3": NoCkpt or a record
    s_phase,      \* SpecStore: "init", "first", "second", "paths"
    s_input,      \* SpecStore: the input slice given to insert_fills
    s_first,      \* SpecStore: result of the first insert_fills call
    s_second,     \* SpecStore: result of the second insert_fills call
    s_paths,      \* SpecStore: results of the two bulk paths on the same chunk
    archive,      \* the object store: absolute hour -> the fills its object decodes to
    now,          \* the wall clock (Utc::now()), in ticks
    start_from,   \* config.ingest.start_from
    end_at,       \* run_backfill's end_at
    pc,           \* run_backfill / run_continuous: where the coordinator task is
    checkpoint,   \* run_backfill: the in-memory Checkpoint
    total_processed,
    any_checkpoint_updates,
    batch,        \* the batch the coordinator is processing
    attempts,     \* retry_with_backoff: attempts made on the current batch
    inserted,     \* the count the last successful insert_fills returned
    queue,        \* the mpsc channel between fetcher and consumer
    f_pc,         \* fetcher task: "none", "loop", "send", "done_ok", "done_err"
    f_current_start,
    f_cursor,
    f_batch,      \* the batch the fetcher holds while it sends
    fetchLog,     \* history: the hours whose object was requested, in order
    sentLog,      \* history: the hours of the batches sent on the queue
    insertedLog,  \* history: the hours of the batches insert_fills accepted
    preTable,     \* history: the fills table when the current batch was received
    ckpt0,        \* history: the checkpoint row before the first run
    crashes,      \* SpecResume: how many times the process was killed
    c_current_start,  \* run_continuous: current_start
    c_cursor,     \* run_continuous: cursor
    sig,          \* run_continuous: the shutdown channel: "none" or "sent"
    c_result,     \* run_continuous: "none" while it runs, then "Ok" or the
                  \* kind of the Error it returned
    r_pc,         \* retry_with_backoff: "idle", "call", "sleep", "done"
    r_max_retries,  \* retry_with_backoff: the max_retries argument
    r_attempts,   \* retry_with_backoff: attempts
    r_calls,      \* history: what operation() returned, call by call
    r_result,     \* retry_with_backoff: "none", then "Ok" or the error returned
    p_pc,         \* fetch_page called in sequence: "idle", "call", "err"
    p_cursor,     \* the cursor the next fetch_page call is given
    p_batch,      \* the batch the last fetch_page call returned
    p_clock,      \* history: the wall clock at the last fetch_page call
    p_log,        \* history: the hours whose object the calls asked for
    d_pc,         \* the decoder alone: "idle", "input", "decoded", "stored"
    d_date,       \* the archive date of the hour decoded
    d_lines,      \* the lines of the decompressed object
    d_path,       \* what determine_data_path returned for d_date
    d_result,     \* what parse_fills returned for d_lines and d_date
    v_pc,         \* the view refresh alone: "idle", "start", "lookup", "refresh", "done"
    v_inserted,   \* insert_fills: total_inserted when the chunks are done
    v_log,        \* history: what became of each view, in the order of the list
    v_result,     \* what insert_fills returned
    h_pc,         \* get_missing_hours alone: "idle", "input", "done"
    h_start,      \* get_missing_hours: start
    h_end,        \* get_missing_hours: end
    h_result,     \* the hours get_missing_hours returned
    g_table,      \* the markets table: market_id -> its row, or NoMarket
    g_seq,        \* the next value of the sequence behind markets.id
    g_cache,      \* MarketRegistry.markets: market_id -> the cached id, or 0
    g_universe,   \* the market ids the metadata endpoint lists, in order
    g_pc,         \* each caller of get_or_create_market: "idle", "routine",
                  \* "refresh"
    g_arg,        \* each caller's market_id argument
    g_id,         \* each caller's id, as the stored routine returned it
    g_i,          \* each caller's refresh_metadata: the entries upserted so far
    g_calls,      \* history: the calls of get_or_create_market begun so far
    g_ids,        \* history: market_id -> the <<id, cache hit>> pairs the calls
                  \* returned for it
    g_last,       \* history: what the last finished call returned
    a_mailbox,    \* IncrementalStatsUpdater: the mpsc channel of update requests
    a_closed,     \* update_tx has been dropped
    a_owner,      \* the owner of the updater: "none", "running", "joining",
                  \* "returned"
    a_w,          \* the worker task: "none", "recv", "hours", "fanout", "exited"
    a_req,        \* the request the worker is processing
    a_pending,    \* process_update: the affected hours not yet started
    a_running,    \* process_update: the hours whose recomputation is running
    a_results,    \* process_update: the <<hour, result>> pairs collected
    a_accepted,   \* history: the requests try_send accepted, in order
    a_processed,  \* history: what became of the last request the worker finished,
                  \* how many it finished and how the earlier ones failed
    a_published,  \* history: the calls of queue_update so far
    a_last,       \* history: the last call of queue_update
    a_atClose,    \* history: the length of the mailbox when it was closed
    k_pc,         \* insert_fills by row counts: "idle", "input", "chunk", "values",
                  \* "done"
    k_len,        \* fills.len()
    k_todo,       \* the chunks of fills.chunks(CHUNK_SIZE) not yet passed on
    k_chunks,     \* history: the chunks passed to bulk_insert_fills_chunk
    k_batches,    \* the sub-chunks of the VALUES path not yet sent
    k_stmts,      \* history: the VALUES statements sent for the current chunk
    k_tx,         \* history: the transactions begun
    k_result,     \* what insert_fills returned: "none", "Ok", "Err"
    q_pc,         \* fetch_page on a cursor string: "idle", "input", "done"
    q_cursor,     \* the cursor argument: none, or the parts of the string
                  \* between its '_'
    q_result      \* how the call ended, and the batch when it returned one

dbVars == <<fills, ckpt>>
retryVars == <<r_pc, r_max_retries, r_attempts, r_calls, r_result>>
\* The state of the calls studied alone (insert_fills, retry_with_backoff),
\* which the pipeline's actions leave as it is.
pageVars == <<p_pc, p_cursor, p_batch, p_clock, p_log>>
decodeVars == <<d_pc, d_date, d_lines, d_path, d_result>>
refreshVars == <<v_pc, v_inserted, v_log, v_result>>
hoursVars == <<h_pc, h_start, h_end, h_result>>
marketVars == <<g_table, g_seq, g_cache, g_universe, g_pc, g_arg, g_id, g_i, g_calls,
               g_ids, g_last>>
statsVars == <<a_mailbox, a_closed, a_owner, a_w, a_req, a_pending, a_running,
              a_results, a_accepted, a_processed, a_published, a_last, a_atClose>>
chunkVars == <<k_pc, k_len, k_todo, k_chunks, k_batches, k_stmts, k_tx, k_result>>
cursorVars == <<q_pc, q_cursor, q_result>>
laterVars == <<marketVars, statsVars, chunkVars, cursorVars>>
storeVars == <<s_phase, s_input, s_first, s_second, s_paths, retryVars, pageVars,
               decodeVars, refreshVars, hoursVars, laterVars>>
envVars == <<archive, now, start_from, end_at>>
consumerVars == <<pc, checkpoint, total_processed, any_checkpoint_updates, batch,
                  attempts, inserted>>
fetcherVars == <<f_pc, f_current_start, f_cursor, f_batch>>
histVars == <<fetchLog, sentLog, insertedLog, preTable>>
contVars == <<c_current_start, c_cursor, sig, c_result>>
pipeVars == <<envVars, consumerVars, queue, fetcherVars, histVars, ckpt0, crashes,
              contVars>>
vars == <<dbVars, storeVars, pipeVars>>

\* What the actions of each stand-alone study leave unchanged.
sVars == <<s_phase, s_input, s_first, s_second, s_paths>>
StoreRest == <<retryVars, pageVars, decodeVars, refreshVars, hoursVars, pipeVars,
    laterVars>>
RetryRest == <<dbVars, sVars, pageVars, decodeVars, refreshVars, hoursVars, pipeVars,
    laterVars>>
PageRest == <<dbVars, sVars, retryVars, decodeVars, refreshVars, hoursVars, archive,
              start_from, end_at, consumerVars, queue, fetcherVars, histVars, ckpt0,
              crashes, contVars, laterVars>>
DecodeRest == <<ckpt, sVars, retryVars, pageVars, refreshVars, hoursVars, pipeVars,
    laterVars>>
RefreshRest == <<dbVars, sVars, retryVars, pageVars, decodeVars, hoursVars, pipeVars,
    laterVars>>
HoursRest == <<dbVars, sVars, retryVars, pageVars, decodeVars, refreshVars, pipeVars,
    laterVars>>
EarlierRest == <<dbVars, sVars, retryVars, pageVars, decodeVars, refreshVars, hoursVars,
                 pipeVars>>
MarketRest == <<EarlierRest, statsVars, chunkVars, cursorVars>>
StatsRest == <<ckpt, sVars, retryVars, pageVars, decodeVars, refreshVars, hoursVars,
               pipeVars, marketVars, chunkVars, cursorVars>>
ChunkRest == <<EarlierRest, marketVars, statsVars, cursorVars>>
CursorRest == <<EarlierRest, marketVars, statsVars, chunkVars>>

(***************************************************************************)
(* Bounds of the model.  CHUNK_SIZE and BATCH_SIZE stand for the source's  *)
(* 50000 (store.rs:44) and 5000 (store.rs:162), scaled down so that a      *)
(* slice of MaxLen fills spans several chunks and sub-chunks.              *)
(***************************************************************************)
MaxLen == 3
MaxPre == 1
CHUNK_SIZE == 2
BATCH_SIZE == 1

\* ------------------------------------------------------------------ values

Fin(n) == [k |-> "fin", v |-> n]
NaN == [k |-> "nan", v |-> 0]
Inf == [k |-> "inf", v |-> 0]
NoneF == [k |-> "none", v |-> 0]
NullV == [k |-> "null", v |-> 0]
ErrV == [k |-> "err", v |-> 0]

\* model.rs Fill
MkFill(user, coin, side, price, size, fee, ts) ==
    [user_address |-> user, coin |-> coin, side |-> side, price |-> price,
     size |-> size, fee |-> fee, closed_pnl |-> NoneF, timestamp |-> ts,
     block_number |-> NullV, source_id |-> NullV]

\* The exchanges row of code 'HL' (Store::new).
ExchangeId == 1

\* MarketRegistry::get_or_create_market: the id of a market symbol.
MarketId(coin) == CASE coin = "BTC" -> 1 [] coin = "ETH" -> 2 [] OTHER -> 3

\* A value coerced to NUMERIC(20,10): rounded to 10 fractional digits,
\* half away from zero.
Numeric2010(n) ==
    IF n >= 0 THEN ((n + 5) \div 10) * 10 ELSE 0 - ((((0 - n) + 5) \div 10) * 10)

\* bulk_insert_with_copy: an f64 written with Display into the CSV and read
\* by COPY into a NUMERIC(20,10) column.  "NaN" is a numeric value; "inf"
\* cannot be held by a column with a precision and fails the COPY.
CsvNumeric(x) ==
    CASE x.k = "fin" -> Fin(Numeric2010(x.v))
      [] x.k = "nan" -> NaN
      [] x.k = "inf" -> ErrV
      [] OTHER -> NullV

\* bulk_insert_with_values_optimized: BigDecimal::from_str(&x.to_string()).ok()
\* bound to a NUMERIC(20,10) column.  BigDecimal parses no "NaN" and no "inf":
\* .ok() turns both into None, bound as NULL.
BindNumeric(x) ==
    CASE x.k = "fin" -> Fin(Numeric2010(x.v))
      [] OTHER -> NullV

\* One line of the CSV sent to COPY, as the temp_fills row it becomes.
CopyRow(f) ==
    [exchange_id |-> ExchangeId, market_id |-> MarketId(f.coin),
     user_address |-> f.user_address, side |-> f.side,
     price |-> CsvNumeric(f.price), size |-> CsvNumeric(f.size),
     fee |-> CsvNumeric(f.fee), closed_pnl |-> CsvNumeric(f.closed_pnl),
     timestamp |-> f.timestamp, block_number |-> f.block_number,
     source_id |-> f.source_id]

\* The eleven parameters bound for one fill of a VALUES statement.
BindRow(f) ==
    [exchange_id |-> ExchangeId, market_id |-> MarketId(f.coin),
     user_address |-> f.user_address, side |-> f.side,
     price |-> BindNumeric(f.price), size |-> BindNumeric(f.size),
     fee |-> BindNumeric(f.fee), closed_pnl |-> BindNumeric(f.closed_pnl),
     timestamp |-> f.timestamp, block_number |-> f.block_number,
     source_id |-> f.source_id]

\* ON CONFLICT (exchange_id, user_address, market_id, timestamp, price, size)
Key(r) == <<r.exchange_id, r.user_address, r.market_id, r.timestamp, r.price, r.size>>

Keys(table) == {Key(table[i]) : i \in 1..Len(table)}

\* A row the statement rejects: a value COPY cannot read, or NULL in a
\* NOT NULL column (price, size).
RowFails(r) ==
    \/ r.price.k \in {"err", "null"}
    \/ r.size.k \in {"err", "null"}
    \/ r.fee.k = "err"
    \/ r.closed_pnl.k = "err"

\* INSERT ... ON CONFLICT DO NOTHING without the conflict clause.
RECURSIVE InsertRows_NoConflict(_, _, _)
InsertRows_NoConflict(table, rows, n) ==
    IF rows = <<>> THEN [table |-> table, count |-> n]
    ELSE InsertRows_NoConflict(Append(table, Head(rows)), Tail(rows), n + 1)

\* rows_affected() taken for the number of rows sent.
RECURSIVE InsertRows_CountAll(_, _, _)
InsertRows_CountAll(table, rows, n) ==
    IF rows = <<>> THEN [table |-> table, count |-> n]
    ELSE LET r == Head(rows)
             conflict == Key(r) \in Keys(table)
         IN InsertRows_CountAll(IF conflict THEN table ELSE Append(table, r),
                                Tail(rows), n + 1)

\* INSERT INTO fills ... ON CONFLICT (...) DO NOTHING: a row is added unless a
\* row of the table, or an earlier row of the same statement, has its key.
\* count is rows_affected().
RECURSIVE InsertRows(_, _, _)
InsertRows(table, rows, n) ==
    IF rows = <<>> THEN [table |-> table, count |-> n]
    ELSE LET r == Head(rows)
             conflict == Key(r) \in Keys(table)
         IN InsertRows(IF conflict THEN table ELSE Append(table, r),
                       Tail(rows),
                       IF conflict THEN n ELSE n + 1)

\* slice.chunks(n)
RECURSIVE Chunks(_, _)
Chunks(s, n) ==
    IF s = <<>> THEN <<>>
    ELSE IF Len(s) <= n THEN <<s>>
    ELSE <<SubSeq(s, 1, n)>> \o Chunks(SubSeq(s, n + 1, Len(s)), n)

\* Store::bulk_insert_with_copy: one transaction; dbFail is a database error
\* at any of its statements.  An error rolls the transaction back.
bulk_insert_with_copy(table, chunk, dbFail) ==
    LET rows == [i \in 1..Len(chunk) |-> CopyRow(chunk[i])]
    IN IF dbFail \/ \E i \in 1..Len(rows) : RowFails(rows[i])
       THEN [ok |-> FALSE, table |-> table, count |-> 0]
       ELSE LET r == InsertRows(table, rows, 0)
            IN [ok |-> TRUE, table |-> r.table, count |-> r.count]

\* The loop of Store::bulk_insert_with_values_optimized over the sub-chunks:
\* one transaction each; sub-chunk number failAt meets a database error.
\* The sub-chunks committed before an error stay committed.
RECURSIVE ValuesLoop(_, _, _, _, _)
ValuesLoop(table, batches, idx, total, failAt) ==
    IF batches = <<>> THEN [ok |-> TRUE, table |-> table, count |-> total]
    ELSE LET sub == Head(batches)
             rows == [i \in 1..Len(sub) |-> BindRow(sub[i])]
         IN IF idx = failAt \/ \E i \in 1..Len(rows) : RowFails(rows[i])
            THEN [ok |-> FALSE, table |-> table, count |-> 0]
            ELSE LET r == InsertRows(table, rows, 0)
                 IN ValuesLoop(r.table, Tail(batches), idx + 1,
                               total + r.count, failAt)

bulk_insert_with_values_optimized(table, chunk, failAt) ==
    ValuesLoop(table, Chunks(chunk, BATCH_SIZE), 1, 0, failAt)

\* Store::bulk_insert_fills_chunk: COPY first, the VALUES path on any error.
bulk_insert_fills_chunk(table, chunk, copyFail, failAt) ==
    LET c == bulk_insert_with_copy(table, chunk, copyFail)
    IN IF c.ok THEN c ELSE bulk_insert_with_values_optimized(table, chunk, failAt)

\* The database errors one insert_fills call meets: the chunks whose COPY
\* fails, the one VALUES sub-chunk that fails (vChunk = 0: none), and whether
\* the materialized-view existence lookup fails.
Plans(n) ==
    [copyFail : SUBSET (1..n), vChunk : 0..n, vSub : 1..CHUNK_SIZE,
     refreshFail : BOOLEAN]

NoFailure == [copyFail |-> {}, vChunk |-> 0, vSub |-> 1, refreshFail |-> FALSE]

RECURSIVE InsertLoop(_, _, _, _, _)
InsertLoop(table, chunks, idx, total, plan) ==
    IF chunks = <<>>
    THEN \* refresh_hourly_stats_view().await? after a non-zero insert
         IF total > 0 /\ plan.refreshFail
         THEN [ok |-> FALSE, table |-> table, count |-> 0]
         ELSE [ok |-> TRUE, table |-> table, count |-> total]
    ELSE LET r == bulk_insert_fills_chunk(table, Head(chunks), idx \in plan.copyFail,
                      IF plan.vChunk = idx THEN plan.vSub ELSE 0)
         IN IF r.ok
            THEN InsertLoop(r.table, Tail(chunks), idx + 1, total + r.count, plan)
            ELSE [ok |-> FALSE, table |-> r.table, count |-> 0]

\* Store::insert_fills
insert_fills(table, input, plan) ==
    IF input = <<>> THEN [ok |-> TRUE, table |-> table, count |-> 0]
    ELSE InsertLoop(table, Chunks(input, CHUNK_SIZE), 1, 0, plan)

NumChunks(input) == Len(Chunks(input, CHUNK_SIZE))

\* Every result one insert_fills call can have.
InsertOutcomes(table, input) ==
    {insert_fills(table, input, p) : p \in Plans(NumChunks(input))}

\* -------------------------------------------------------------------- time

TicksPerHour == 2
HoursPerDay == 24
DayTicks == HoursPerDay * TicksPerHour

HourIndex(t) == t \div TicksPerHour
HourOfDay(t) == HourIndex(t) % HoursPerDay
DayOf(t) == t \div DayTicks
HourStart(h) == h * TicksPerHour
Tick(h, k) == h * TicksPerHour + k

None == [some |-> FALSE, v |-> 0]
Some(x) == [some |-> TRUE, v |-> x]

\* The cursor "YYYYMMDD_H": the date (a day number) and the hour.
NoCursor == [some |-> FALSE, date |-> 0, hour |-> 0]
Cursor(d, h) == [some |-> TRUE, date |-> d, hour |-> h]

\* ------------------------------------------------------------- the archive

NumHours == 4
FirstHour == HoursPerDay - 2
ArchiveHours == FirstHour .. (FirstHour + NumHours - 1)

F(u, t) == MkFill(u, "BTC", "BUY", Fin(100), Fin(10), NoneF, t)

\* Two fills in every hour, in time order.
WellFormed == [h \in ArchiveHours |-> <<F(1, Tick(h, 0)), F(2, Tick(h, 1))>>]

\* The second hour decodes to no fill.
WithEmptyHour ==
    [h \in ArchiveHours |-> IF h = FirstHour + 1 THEN <<>> ELSE <<F(1, Tick(h, 1))>>]

\* The first hour holds more fills than one chunk, one of them twice.
BigHour ==
    [h \in ArchiveHours |->
        IF h = FirstHour
        THEN [i \in 1..(CHUNK_SIZE + 2) |->
                 IF i = CHUNK_SIZE + 2 THEN F(1, Tick(h, 0)) ELSE F(i, Tick(h, 0))]
        ELSE <<F(1, Tick(h, 0))>>]

\* The last record of each later hour is stamped in the hour before.
LateFill ==
    [h \in ArchiveHours |->
        IF h = FirstHour THEN <<F(1, Tick(h, 1))>>
        ELSE <<F(1, Tick(h, 1)), F(2, Tick(h - 1, 0))>>]

Archives == {WellFormed, WithEmptyHour, BigHour, LateFill}

\* A fetch_page whose next hour does not roll over to the next day.
fetch_page_NoRollover(sf, cursor) ==
    LET current_date == IF cursor.some
                        THEN cursor.date * DayTicks + cursor.hour * TicksPerHour
                        ELSE sf
        current_hour == IF cursor.some THEN cursor.hour ELSE HourOfDay(sf)
        key == DayOf(current_date) * HoursPerDay + current_hour
    IN [ok |-> key \in DOMAIN archive,
        hour |-> key,
        fills |-> IF key \in DOMAIN archive THEN archive[key] ELSE <<>>,
        cursor |-> Cursor(DayOf(current_date), current_hour + 1),
        has_more |-> current_date < now]

\* S3Source::fetch_page: the hour named by the cursor, or by start_from when
\* there is none; ok is false when the object does not exist (GET fails).
fetch_page(sf, cursor) ==
    LET current_date == IF cursor.some
                        THEN cursor.date * DayTicks + cursor.hour * TicksPerHour
                        ELSE sf
        current_hour == IF cursor.some THEN cursor.hour ELSE HourOfDay(sf)
        key == DayOf(current_date) * HoursPerDay + current_hour
        rolls == current_hour + 1 >= HoursPerDay
        next_hour == IF rolls THEN 0 ELSE current_hour + 1
        next_date == IF rolls THEN current_date + DayTicks ELSE current_date
    IN [ok |-> key \in DOMAIN archive,
        hour |-> key,
        fills |-> IF key \in DOMAIN archive THEN archive[key] ELSE <<>>,
        cursor |-> Cursor(DayOf(next_date), next_hour),
        has_more |-> next_date < now]

NoBatch == [ok |-> FALSE, hour |-> 0, fills |-> <<>>, cursor |-> NoCursor,
            has_more |-> FALSE]

\* ------------------------------------------------------- checkpoint, store

NoCkpt == [present |-> FALSE, cursor |-> NoCursor, last_record_ts |-> None,
           last_block_number |-> NullV, records_processed |-> 0]

\* Checkpoint::new
NewCheckpoint == [cursor |-> NoCursor, last_record_ts |-> None,
                  last_block_number |-> NullV, records_processed |-> 0]

\* Store::get_checkpoint(...).unwrap_or_else(Checkpoint::new)
LoadCheckpoint ==
    IF ckpt.present
    THEN [cursor |-> ckpt.cursor, last_record_ts |-> ckpt.last_record_ts,
          last_block_number |-> ckpt.last_block_number,
          records_processed |-> ckpt.records_processed]
    ELSE NewCheckpoint

\* Store::save_checkpoint: the upsert of the (exchange, source) row.
SavedRow(c) ==
    [present |-> TRUE, cursor |-> c.cursor, last_record_ts |-> c.last_record_ts,
     last_block_number |-> c.last_block_number,
     records_processed |-> c.records_processed]

RowsIn(table, from, to) ==
    {i \in 1..Len(table) : table[i].timestamp >= from /\ table[i].timestamp < to}

\* Store::check_time_range_exists: the count of rows in [start, end)
check_time_range_exists(table, from, to) == Cardinality(RowsIn(table, from, to))

\* The 1000 of get_missing_hours, scaled with the chunk sizes.
MIN_HOUR_ROWS == 1

\* Store::get_missing_hours: the hours of the series from the hour of start to
\* the hour before the hour of end that hold fewer than MIN_HOUR_ROWS rows
\* of [start, end).
get_missing_hours(table, from, to) ==
    {h \in HourIndex(from) .. (HourIndex(to) - 1) :
        Cardinality({i \in RowsIn(table, from, to) :
                        HourIndex(table[i].timestamp) = h}) < MIN_HOUR_ROWS}

\* No view refresh and no get_missing_hours call studied alone.
RefreshIdle ==
    /\ v_pc = "idle"
    /\ v_inserted = 0
    /\ v_log = <<>>
    /\ v_result = [ok |-> FALSE, count |-> 0]

HoursIdle ==
    /\ h_pc = "idle"
    /\ h_start = 0
    /\ h_end = 0
    /\ h_result = {}

NoDecode == [ok |-> FALSE, fills |-> <<>>]

\* No parse_fills call studied alone.
DecodeIdle ==
    /\ d_pc = "idle"
    /\ d_date = 0
    /\ d_lines = <<>>
    /\ d_path = ""
    /\ d_result = NoDecode

\* No sequence of fetch_page calls studied alone.
PageIdle ==
    /\ p_pc = "idle"
    /\ p_cursor = NoCursor
    /\ p_batch = NoBatch
    /\ p_clock = 0
    /\ p_log = <<>>

\* No retry_with_backoff call studied alone.
RetryIdle ==
    /\ r_pc = "idle"
    /\ r_max_retries = 0
    /\ r_attempts = 0
    /\ r_calls = <<>>
    /\ r_result = "none"

\* A registry nobody calls, over an empty markets table.
MarketIdle ==
    /\ g_table = <<>>
    /\ g_seq = 0
    /\ g_cache = <<>>
    /\ g_universe = <<>>
    /\ g_pc = <<>>
    /\ g_arg = <<>>
    /\ g_id = <<>>
    /\ g_i = <<>>
    /\ g_calls = 0
    /\ g_ids = <<>>
    /\ g_last = <<>>

\* No aggregate updater.
StatsIdle ==
    /\ a_mailbox = <<>>
    /\ a_closed = FALSE
    /\ a_owner = "none"
    /\ a_w = "none"
    /\ a_req = <<>>
    /\ a_pending = {}
    /\ a_running = {}
    /\ a_results = {}
    /\ a_accepted = <<>>
    /\ a_processed = <<>>
    /\ a_published = 0
    /\ a_last = <<>>
    /\ a_atClose = 0

\* No insert_fills call followed by row counts.
ChunkIdle ==
    /\ k_pc = "idle"
    /\ k_len = 0
    /\ k_todo = <<>>
    /\ k_chunks = <<>>
    /\ k_batches = <<>>
    /\ k_stmts = <<>>
    /\ k_tx = 0
    /\ k_result = "none"

\* No fetch_page call on a cursor string.
CursorIdle ==
    /\ q_pc = "idle"
    /\ q_cursor = <<>>
    /\ q_result = <<>>

LaterIdle == MarketIdle /\ StatsIdle /\ ChunkIdle /\ CursorIdle

\* The pipeline before any run starts (and throughout SpecStore).
ProcessIdle ==
    /\ pc = "start"
    /\ checkpoint = NewCheckpoint
    /\ total_processed = 0
    /\ any_checkpoint_updates = FALSE
    /\ batch = NoBatch
    /\ attempts = 0
    /\ inserted = 0
    /\ queue = <<>>
    /\ f_pc = "none"
    /\ f_current_start = 0
    /\ f_cursor = NoCursor
    /\ f_batch = NoBatch
    /\ fetchLog = <<>>
    /\ sentLog = <<>>
    /\ insertedLog = <<>>
    /\ preTable = <<>>
    /\ c_current_start = 0
    /\ c_cursor = NoCursor
    /\ sig = "none"
    /\ c_result = "none"

PipeIdle ==
    /\ archive = WellFormed
    /\ now = 0
    /\ start_from = 0
    /\ end_at = 0
    /\ crashes = 0
    /\ ckpt0 = NoCkpt
    /\ ProcessIdle

\* ------------------------------------------------------------- SpecStore

\* The fills the store specification draws its inputs from: two whose prices
\* differ only past the tenth fractional digit, a sell of the same key, a
\* fee that is not a number, a price that is not a number, an infinite fee.
StorePool ==
    { MkFill(1, "BTC", "BUY", Fin(100), Fin(10), NoneF, 1),
      MkFill(1, "BTC", "SELL", Fin(102), Fin(10), Fin(30), 1),
      MkFill(2, "ETH", "BUY", Fin(200), Fin(10), NaN, 2),
      MkFill(2, "ETH", "SELL", NaN, Fin(10), NoneF, 2),
      MkFill(1, "ETH", "BUY", Fin(300), Fin(10), Inf, 2) }

SeqsUpTo(S, n) == UNION {[1..m -> S] : m \in 0..n}

NoResult == [ok |-> FALSE, count |-> 0, pre |-> <<>>, post |-> <<>>]
NoPaths == [done |-> FALSE]

PreTables == {bulk_insert_with_copy(<<>>, s, FALSE).table : s \in SeqsUpTo(StorePool, MaxPre)}

StoreInit ==
    /\ fills \in PreTables
    /\ ckpt = NoCkpt
    /\ s_phase = "init"
    /\ s_input \in SeqsUpTo(StorePool, MaxLen)
    /\ s_first = NoResult
    /\ s_second = NoResult
    /\ s_paths = NoPaths
    /\ LaterIdle
    /\ RefreshIdle
    /\ HoursIdle
    /\ RetryIdle
    /\ PageIdle
    /\ DecodeIdle
    /\ PipeIdle

\* insert_fills(&input) on the table
StoreFirst ==
    /\ s_phase = "init"
    /\ \E r \in InsertOutcomes(fills, s_input) :
          /\ fills' = r.table
          /\ s_first' = [ok |-> r.ok, count |-> r.count, pre |-> fills, post |-> r.table]
    /\ s_phase' = "first"
    /\ UNCHANGED <<ckpt, s_input, s_second, s_paths, StoreRest>>

\* insert_fills(&input) again, on the same input
StoreSecond ==
    /\ s_phase = "first"
    /\ \E r \in InsertOutcomes(fills, s_input) :
          /\ fills' = r.table
          /\ s_second' = [ok |-> r.ok, count |-> r.count, pre |-> fills, post |-> r.table]
    /\ s_phase' = "second"
    /\ UNCHANGED <<ckpt, s_input, s_first, s_paths, StoreRest>>

\* bulk_insert_with_copy and bulk_insert_with_values_optimized, each applied to
\* the same table and the same chunk, without database errors.
StorePaths ==
    /\ s_phase = "init"
    /\ Len(s_input) > 0
    /\ s_paths' = [done |-> TRUE,
                   copy |-> bulk_insert_with_copy(fills, s_input, FALSE),
                   values |-> bulk_insert_with_values_optimized(fills, s_input, 0)]
    /\ s_phase' = "paths"
    /\ UNCHANGED <<fills, ckpt, s_input, s_first, s_second, StoreRest>>

StoreNext == StoreFirst \/ StoreSecond \/ StorePaths

SpecStore == StoreInit /\ [][StoreNext]_vars

\* ------------------------------------------------- backfill (pipeline.rs)

channel_buffer_size == 1
max_retries == 2
MaxCrashes == 1

Last(q) == q[Len(q)]

\* The checkpoints a run may find: none, or one left after the first hour.
InitialCkpts ==
    {NoCkpt,
     [present |-> TRUE, cursor |-> Cursor(DayOf(HourStart(FirstHour)), HourOfDay(HourStart(FirstHour + 1))),
      last_record_ts |-> Some(Tick(FirstHour, 1)), last_block_number |-> NullV,
      records_processed |-> 1]}

BackfillInit ==
    /\ fills = <<>>
    /\ ckpt \in InitialCkpts
    /\ s_phase = "init" /\ s_input = <<>> /\ s_first = NoResult
    /\ s_second = NoResult /\ s_paths = NoPaths
    /\ LaterIdle
    /\ RefreshIdle
    /\ HoursIdle
    /\ RetryIdle
    /\ PageIdle
    /\ DecodeIdle
    /\ archive \in Archives
    /\ now \in {Tick(FirstHour + 1, 1), HourStart(FirstHour + NumHours) + DayTicks}
    /\ start_from \in {HourStart(FirstHour), Tick(FirstHour, 1)}
    /\ end_at \in {HourStart(FirstHour + 1), HourStart(FirstHour + 2)}
    /\ crashes = 0
    /\ ckpt0 = ckpt
    /\ ProcessIdle

\* A skip test that asks only whether the range holds any row.
SkipBackfill_AnyData(table) ==
    check_time_range_exists(table, start_from, end_at) > 0

\* run_backfill: the range already holds data and no hour of it is missing.
SkipBackfill(table) ==
    LET has_data == check_time_range_exists(table, start_from, end_at) > 0
        missing_hours == get_missing_hours(table, start_from, end_at)
    IN has_data /\ missing_hours = {}

\* run_backfill: the requested start when it is earlier than the checkpoint,
\* else the checkpoint's time.
EffectiveStart(cp) ==
    IF cp.last_record_ts.some
    THEN IF start_from < cp.last_record_ts.v THEN start_from ELSE cp.last_record_ts.v
    ELSE start_from

\* A start that always keeps the checkpoint's cursor.
EffectiveCursor_Keep(cp) == cp.cursor

\* run_backfill: no cursor when the run goes back in time.
EffectiveCursor(cp) ==
    IF start_from < (IF cp.last_record_ts.some THEN cp.last_record_ts.v ELSE start_from)
    THEN NoCursor ELSE cp.cursor

\* run_backfill up to the spawn of the fetcher: the completeness look-up, the
\* checkpoint, the effective start and cursor.
BackfillStart ==
    /\ pc = "start"
    /\ \E dbFail \in BOOLEAN :
        IF dbFail
        THEN /\ pc' = "done_err"
             /\ UNCHANGED <<checkpoint, total_processed, f_pc, f_current_start, f_cursor>>
        ELSE LET cp == LoadCheckpoint
                 current_start == EffectiveStart(cp)
                 cursor == EffectiveCursor(cp)
             IN IF SkipBackfill(fills)
                THEN /\ pc' = "skipped"
                     /\ UNCHANGED <<checkpoint, total_processed, f_pc,
                                    f_current_start, f_cursor>>
                ELSE /\ pc' = "recv"
                     /\ checkpoint' = cp
                     /\ total_processed' = cp.records_processed
                     /\ f_pc' = "loop"
                     /\ f_current_start' = current_start
                     /\ f_cursor' = cursor
    /\ UNCHANGED <<dbVars, storeVars, envVars, any_checkpoint_updates, batch,
                   attempts, inserted, queue, f_batch, histVars, crashes, ckpt0, contVars>>

\* spawn_fetcher, one turn of the loop up to the send: the end test, then
\* fetch_page under retry_with_backoff (no state changes between attempts, so
\* the retries are one step whose result is the page or the error).
FetcherStep ==
    /\ f_pc = "loop"
    /\ IF f_current_start >= end_at
       THEN /\ f_pc' = "done_ok"
            /\ UNCHANGED <<f_current_start, f_cursor, f_batch, fetchLog>>
       ELSE LET b == fetch_page(f_current_start, f_cursor)
            IN /\ fetchLog' = Append(fetchLog, b.hour)
               /\ \E ioFail \in BOOLEAN :
                    IF ioFail \/ ~b.ok
                    THEN /\ f_pc' = "done_err"
                         /\ UNCHANGED <<f_current_start, f_cursor, f_batch>>
                    ELSE /\ f_pc' = "send"
                         /\ f_batch' = b
                         /\ f_cursor' = b.cursor
                         /\ f_current_start' =
                              IF b.fills # <<>> THEN Last(b.fills).timestamp
                              ELSE f_current_start
    /\ UNCHANGED <<dbVars, storeVars, envVars, consumerVars, queue, sentLog,
                   insertedLog, preTable, crashes, ckpt0, contVars>>

\* The receiver is dropped when run_backfill has returned.
RxDropped == pc \in {"done_ok", "done_err", "skipped"}

\* A fetcher that goes on fetching after its send found the receiver gone.
FetcherSend_IgnoresClosed ==
    /\ f_pc = "send"
    /\ IF RxDropped
       THEN /\ f_pc' = IF f_batch.has_more THEN "loop" ELSE "done_ok"
            /\ UNCHANGED <<queue, sentLog>>
       ELSE /\ Len(queue) < channel_buffer_size
            /\ queue' = Append(queue, f_batch)
            /\ sentLog' = Append(sentLog, f_batch.hour)
            /\ f_pc' = IF f_batch.has_more THEN "loop" ELSE "done_ok"
    /\ f_batch' = NoBatch
    /\ UNCHANGED <<dbVars, storeVars, envVars, consumerVars, f_current_start,
                   f_cursor, fetchLog, insertedLog, preTable, crashes, ckpt0, contVars>>

\* A send that never waits for room in the queue.
FetcherSend_NoCapacity ==
    /\ f_pc = "send"
    /\ IF RxDropped
       THEN /\ f_pc' = "done_ok"
            /\ UNCHANGED <<queue, sentLog>>
       ELSE /\ queue' = Append(queue, f_batch)
            /\ sentLog' = Append(sentLog, f_batch.hour)
            /\ f_pc' = IF f_batch.has_more THEN "loop" ELSE "done_ok"
    /\ f_batch' = NoBatch
    /\ UNCHANGED <<dbVars, storeVars, envVars, consumerVars, f_current_start,
                   f_cursor, fetchLog, insertedLog, preTable, crashes, ckpt0, contVars>>

\* tx.send(batch).await: completes when the queue has room, fails when the
\* receiver is gone; then the has_more test.
FetcherSend ==
    /\ f_pc = "send"
    /\ IF RxDropped
       THEN /\ f_pc' = "done_ok"
            /\ UNCHANGED <<queue, sentLog>>
       ELSE /\ Len(queue) < channel_buffer_size
            /\ queue' = Append(queue, f_batch)
            /\ sentLog' = Append(sentLog, f_batch.hour)
            /\ f_pc' = IF f_batch.has_more THEN "loop" ELSE "done_ok"
    /\ f_batch' = NoBatch
    /\ UNCHANGED <<dbVars, storeVars, envVars, consumerVars, f_current_start,
                   f_cursor, fetchLog, insertedLog, preTable, crashes, ckpt0, contVars>>

FetcherDone == f_pc \in {"done_ok", "done_err"}

\* A consumer that takes a batch off the queue and does not insert it.
ConsumerRecv_SkipsBatch ==
    /\ pc = "recv"
    /\ IF queue # <<>>
       THEN /\ queue' = Tail(queue)
            /\ pc' = "recv"
            /\ UNCHANGED <<batch, attempts, preTable>>
       ELSE /\ FetcherDone
            /\ pc' = "final"
            /\ UNCHANGED <<batch, queue, attempts, preTable>>
    /\ UNCHANGED <<dbVars, storeVars, envVars, checkpoint, total_processed,
                   any_checkpoint_updates, inserted, fetcherVars, fetchLog, sentLog,
                   insertedLog, crashes, ckpt0, contVars>>

\* A consumer whose queue never closes (a sender outlives the fetcher): recv
\* yields batches only.
ConsumerRecv_SenderKept ==
    /\ pc = "recv"
    /\ queue # <<>>
    /\ batch' = Head(queue)
    /\ queue' = Tail(queue)
    /\ attempts' = 0
    /\ preTable' = fills
    /\ pc' = "insert"
    /\ UNCHANGED <<dbVars, storeVars, envVars, checkpoint, total_processed,
                   any_checkpoint_updates, inserted, fetcherVars, fetchLog, sentLog,
                   insertedLog, crashes, ckpt0, contVars>>

\* rx.recv().await: the next batch, or None once the sender is dropped and the
\* queue is empty.
ConsumerRecv ==
    /\ pc = "recv"
    /\ IF queue # <<>>
       THEN /\ batch' = Head(queue)
            /\ queue' = Tail(queue)
            /\ attempts' = 0
            /\ preTable' = fills
            /\ pc' = "insert"
       ELSE /\ FetcherDone
            /\ pc' = "final"
            /\ UNCHANGED <<batch, queue, attempts, preTable>>
    /\ UNCHANGED <<dbVars, storeVars, envVars, checkpoint, total_processed,
                   any_checkpoint_updates, inserted, fetcherVars, fetchLog, sentLog,
                   insertedLog, crashes, ckpt0, contVars>>

\* A consumer that goes on to the checkpoint when the insert has failed for
\* good.
ConsumerInsert_GoesOn ==
    /\ pc = "insert"
    /\ \E r \in InsertOutcomes(fills, batch.fills) :
        /\ fills' = r.table
        /\ IF r.ok
           THEN /\ inserted' = r.count
                /\ insertedLog' = Append(insertedLog, batch.hour)
                /\ pc' = "after_insert"
                /\ UNCHANGED <<attempts, queue>>
           ELSE /\ attempts' = attempts + 1
                /\ inserted' = 0
                /\ UNCHANGED <<insertedLog, queue>>
                /\ \E backoffSpent \in BOOLEAN :
                     IF attempts + 1 >= max_retries \/ backoffSpent
                     THEN pc' = "after_insert"
                     ELSE pc' = "insert"
    /\ UNCHANGED <<ckpt, storeVars, envVars, checkpoint, total_processed,
                   any_checkpoint_updates, batch, fetcherVars, fetchLog, sentLog,
                   preTable, crashes, ckpt0, contVars>>

\* retry_with_backoff(|| insert_fills(&batch.fills)): one attempt.  A failed
\* attempt keeps what it committed; the wrapper gives up at max_retries
\* attempts or when the backoff's elapsed-time budget is spent.
ConsumerInsert ==
    /\ pc = "insert"
    /\ \E r \in InsertOutcomes(fills, batch.fills) :
        /\ fills' = r.table
        /\ IF r.ok
           THEN /\ inserted' = r.count
                /\ insertedLog' = Append(insertedLog, batch.hour)
                /\ pc' = "after_insert"
                /\ UNCHANGED <<attempts, queue>>
           ELSE /\ attempts' = attempts + 1
                /\ UNCHANGED <<inserted, insertedLog>>
                /\ \E backoffSpent \in BOOLEAN :
                     IF attempts + 1 >= max_retries \/ backoffSpent
                     THEN pc' = "done_err" /\ queue' = <<>>
                     ELSE pc' = "insert" /\ UNCHANGED queue
    /\ UNCHANGED <<ckpt, storeVars, envVars, checkpoint, total_processed,
                   any_checkpoint_updates, batch, fetcherVars, fetchLog, sentLog,
                   preTable, crashes, ckpt0, contVars>>

\* The checkpoint a batch leaves in memory (pipeline.rs, after the insert).
should_update_checkpoint(cp, b) ==
    IF b.fills # <<>>
    THEN (~cp.last_record_ts.some) \/ Last(b.fills).timestamp >= cp.last_record_ts.v
    ELSE FALSE

AdvanceCheckpoint(cp, b, total) ==
    IF should_update_checkpoint(cp, b)
    THEN [cursor |-> b.cursor,
          last_record_ts |-> Some(Last(b.fills).timestamp),
          last_block_number |-> Last(b.fills).block_number,
          records_processed |-> total]
    ELSE cp

\* The rest of the consumer's loop body: the running total, the in-memory
\* checkpoint, and the periodic save when checkpoint_interval_secs have passed.
ConsumerAfterInsert ==
    /\ pc = "after_insert"
    /\ LET total == total_processed + inserted
           upd == should_update_checkpoint(checkpoint, batch)
           cp == AdvanceCheckpoint(checkpoint, batch, total)
       IN /\ total_processed' = total
          /\ checkpoint' = cp
          /\ any_checkpoint_updates' = (any_checkpoint_updates \/ upd)
          /\ \E intervalPassed \in BOOLEAN, dbFail \in BOOLEAN :
               IF upd /\ intervalPassed
               THEN IF dbFail
                    THEN pc' = "done_err" /\ queue' = <<>> /\ UNCHANGED ckpt
                    ELSE pc' = "recv" /\ ckpt' = SavedRow(cp) /\ UNCHANGED queue
               ELSE pc' = "recv" /\ UNCHANGED <<ckpt, queue>>
    /\ UNCHANGED <<fills, storeVars, envVars, batch, attempts, inserted,
                   fetcherVars, histVars, crashes, ckpt0, contVars>>

\* A consumer that leaves the loop without the final save.
ConsumerFinal_NoSave ==
    /\ pc = "final"
    /\ pc' = "join"
    /\ UNCHANGED <<dbVars, storeVars, envVars, checkpoint, total_processed,
                   any_checkpoint_updates, batch, attempts, inserted, queue,
                   fetcherVars, histVars, crashes, ckpt0, contVars>>

\* After the loop: the final save, made only if some batch advanced the
\* checkpoint.
ConsumerFinal ==
    /\ pc = "final"
    /\ IF any_checkpoint_updates
       THEN \E dbFail \in BOOLEAN :
               IF dbFail THEN pc' = "done_err" /\ UNCHANGED ckpt
               ELSE pc' = "join" /\ ckpt' = SavedRow(checkpoint)
       ELSE pc' = "join" /\ UNCHANGED ckpt
    /\ UNCHANGED <<fills, storeVars, envVars, checkpoint, total_processed,
                   any_checkpoint_updates, batch, attempts, inserted, queue,
                   fetcherVars, histVars, crashes, ckpt0, contVars>>

\* fetcher.await: the fetcher's own result is run_backfill's.
ConsumerJoin ==
    /\ pc = "join"
    /\ FetcherDone
    /\ pc' = IF f_pc = "done_ok" THEN "done_ok" ELSE "done_err"
    /\ UNCHANGED <<dbVars, storeVars, envVars, checkpoint, total_processed,
                   any_checkpoint_updates, batch, attempts, inserted, queue,
                   fetcherVars, histVars, crashes, ckpt0, contVars>>

BackfillNext ==
    \/ BackfillStart
    \/ FetcherStep
    \/ FetcherSend
    \/ ConsumerRecv
    \/ ConsumerInsert
    \/ ConsumerAfterInsert
    \/ ConsumerFinal
    \/ ConsumerJoin

Spec == BackfillInit /\ [][BackfillNext]_vars

\* The fetcher is a spawned task of the runtime: it is scheduled whenever it
\* can take a step.
SpecFair ==
    /\ Spec
    /\ WF_vars(FetcherStep)
    /\ WF_vars(FetcherSend)

\* The attempt of ConsumerInsert that gives up: Ok(0) for a batch without
\* fills, and for any other batch an error of its first statement with the
\* backoff spent.  It is enabled exactly when ConsumerInsert is.
InsertAttemptReturns ==
    /\ pc = "insert"
    /\ IF batch.fills = <<>>
       THEN /\ inserted' = 0
            /\ insertedLog' = Append(insertedLog, batch.hour)
            /\ pc' = "after_insert"
            /\ UNCHANGED <<attempts, queue>>
       ELSE /\ attempts' = attempts + 1
            /\ pc' = "done_err"
            /\ queue' = <<>>
            /\ UNCHANGED <<inserted, insertedLog>>
    /\ UNCHANGED <<dbVars, storeVars, envVars, checkpoint, total_processed,
                   any_checkpoint_updates, batch, fetcherVars, fetchLog, sentLog,
                   preTable, crashes, ckpt0, contVars>>

\* Both tasks are futures the runtime drives: run_backfill does not stay for
\* ever before a step it can take, nor does the fetcher (for the insert the
\* condition is put on a step that is enabled whenever the action is).
SpecBackfillFair ==
    /\ Spec
    /\ WF_vars(BackfillStart)
    /\ WF_vars(FetcherStep)
    /\ WF_vars(FetcherSend)
    /\ WF_vars(ConsumerRecv)
    /\ WF_vars(InsertAttemptReturns)
    /\ WF_vars(ConsumerAfterInsert)
    /\ WF_vars(ConsumerFinal)
    /\ WF_vars(ConsumerJoin)

Running == pc \in {"recv", "insert", "after_insert", "final", "join"}

\* The process is killed while run_backfill runs and the same command is run
\* again: the tasks and all they hold are gone, the database stays.  A kill
\* inside insert_fills leaves the chunks already committed and loses the open
\* transaction, as an insert_fills that fails at that point does.
Crash ==
    /\ Running
    /\ crashes < MaxCrashes
    /\ crashes' = crashes + 1
    /\ pc' = "start"
    /\ checkpoint' = NewCheckpoint
    /\ total_processed' = 0
    /\ any_checkpoint_updates' = FALSE
    /\ batch' = NoBatch
    /\ attempts' = 0
    /\ inserted' = 0
    /\ queue' = <<>>
    /\ f_pc' = "none"
    /\ f_current_start' = 0
    /\ f_cursor' = NoCursor
    /\ f_batch' = NoBatch
    /\ fetchLog' = <<>>
    /\ sentLog' = <<>>
    /\ insertedLog' = <<>>
    /\ preTable' = <<>>
    /\ IF pc = "insert"
       THEN \E t \in {fills} \cup {o.table : o \in {r \in InsertOutcomes(fills, batch.fills) : ~r.ok}} :
               fills' = t
       ELSE UNCHANGED fills
    /\ UNCHANGED <<ckpt, storeVars, envVars, ckpt0, contVars>>

SpecResume == BackfillInit /\ [][BackfillNext \/ Crash]_vars

\* ----------------------------------------------- continuous (pipeline.rs)

\* The loop never ends by itself: the model follows its first MaxFetches fetches.
MaxFetches == 4

ContinuousInit ==
    /\ fills = <<>>
    /\ ckpt \in InitialCkpts
    /\ s_phase = "init" /\ s_input = <<>> /\ s_first = NoResult
    /\ s_second = NoResult /\ s_paths = NoPaths
    /\ LaterIdle
    /\ RefreshIdle
    /\ HoursIdle
    /\ RetryIdle
    /\ PageIdle
    /\ DecodeIdle
    /\ archive \in Archives
    /\ now \in {Tick(FirstHour + 1, 1), HourStart(FirstHour + NumHours) + DayTicks}
    /\ start_from \in {HourStart(FirstHour), Tick(FirstHour, 1)}
    /\ end_at = 0
    /\ crashes = 0
    /\ ckpt0 = ckpt
    /\ ProcessIdle

\* run_continuous up to the loop: the checkpoint, or the configured start.
ContinuousStart ==
    /\ pc = "start"
    /\ \E dbFail \in BOOLEAN :
        IF dbFail
        THEN /\ pc' = "done_err"
             /\ c_result' = "Database"
             /\ UNCHANGED <<c_current_start, c_cursor, total_processed>>
        ELSE LET cp == LoadCheckpoint
             IN /\ pc' = "select"
                /\ c_result' = c_result
                /\ c_current_start' = IF cp.last_record_ts.some
                                      THEN cp.last_record_ts.v ELSE start_from
                /\ c_cursor' = cp.cursor
                /\ total_processed' = cp.records_processed
    /\ UNCHANGED <<dbVars, storeVars, envVars, checkpoint, any_checkpoint_updates,
                   batch, attempts, inserted, queue, fetcherVars, histVars, ckpt0,
                   crashes, sig>>

\* The signal task: ctrl_c() resolves and () is sent on the shutdown channel.
Signal ==
    /\ pc \in {"select", "c_insert", "c_ok", "c_sleep"}
    /\ sig = "none"
    /\ sig' = "sent"
    /\ UNCHANGED <<dbVars, storeVars, envVars, consumerVars, queue, fetcherVars,
                   histVars, ckpt0, crashes, c_current_start, c_cursor, c_result>>

\* fetch_and_process_batch, first half: fetch_page under retry_with_backoff.
\* Every error of fetch_page is Error::Ingest or Error::Validation, which
\* is_retryable() rejects: run_continuous returns it.
ContinuousFetch ==
    /\ pc = "select"
    /\ Len(fetchLog) < MaxFetches
    /\ LET b == fetch_page(c_current_start, c_cursor)
       IN /\ fetchLog' = Append(fetchLog, b.hour)
          /\ \E ioFail \in BOOLEAN :
               IF ioFail \/ ~b.ok
               THEN /\ pc' = "done_err"
                    /\ c_result' = "Ingest"
                    /\ UNCHANGED <<batch, preTable>>
               ELSE /\ pc' = "c_insert"
                    /\ batch' = b
                    /\ preTable' = fills
                    /\ c_result' = c_result
    /\ UNCHANGED <<dbVars, storeVars, envVars, checkpoint, total_processed,
                   any_checkpoint_updates, attempts, inserted, queue, fetcherVars,
                   sentLog, insertedLog, ckpt0, crashes, c_current_start,
                   c_cursor, sig>>

\* A loop that returns the error of a failed insert instead of waiting.
ContinuousInsert_Propagates ==
    /\ pc = "c_insert"
    /\ \E r \in InsertOutcomes(fills, batch.fills) :
        /\ fills' = r.table
        /\ IF r.ok
           THEN /\ inserted' = r.count
                /\ insertedLog' = Append(insertedLog, batch.hour)
                /\ pc' = "c_ok"
                /\ c_result' = c_result
           ELSE /\ pc' = "done_err"
                /\ c_result' = "Database"
                /\ UNCHANGED <<inserted, insertedLog>>
    /\ UNCHANGED <<ckpt, storeVars, envVars, checkpoint, total_processed,
                   any_checkpoint_updates, batch, attempts, queue, fetcherVars,
                   fetchLog, sentLog, preTable, ckpt0, crashes, c_current_start,
                   c_cursor, sig>>

\* fetch_and_process_batch, second half: insert_fills, not retried here.  Its
\* errors are database errors, which are retryable: the loop sleeps 30 s.
ContinuousInsert ==
    /\ pc = "c_insert"
    /\ \E r \in InsertOutcomes(fills, batch.fills) :
        /\ fills' = r.table
        /\ IF r.ok
           THEN /\ inserted' = r.count
                /\ insertedLog' = Append(insertedLog, batch.hour)
                /\ pc' = "c_ok"
           ELSE /\ pc' = "c_sleep"
                /\ UNCHANGED <<inserted, insertedLog>>
    /\ UNCHANGED <<ckpt, storeVars, envVars, checkpoint, total_processed,
                   any_checkpoint_updates, batch, attempts, queue, fetcherVars,
                   fetchLog, sentLog, preTable, ckpt0, crashes, contVars>>

\* The Ok arm of the select: the loop state moves on and the checkpoint is
\* saved; then the 60 s sleep when has_more is false.
ContinuousHandleOk ==
    /\ pc = "c_ok"
    /\ LET total == total_processed + inserted
           cs == IF batch.fills # <<>> THEN Last(batch.fills).timestamp
                 ELSE c_current_start
           row == [present |-> TRUE, cursor |-> batch.cursor,
                   last_record_ts |-> Some(cs),
                   last_block_number |-> IF batch.fills # <<>>
                                         THEN Last(batch.fills).block_number
                                         ELSE NullV,
                   records_processed |-> total]
       IN /\ total_processed' = total
          /\ c_current_start' = cs
          /\ c_cursor' = batch.cursor
          /\ \E dbFail \in BOOLEAN :
               IF dbFail
               THEN pc' = "done_err" /\ c_result' = "Database" /\ UNCHANGED ckpt
               ELSE /\ ckpt' = row
                    /\ c_result' = c_result
                    /\ pc' = IF batch.has_more THEN "select" ELSE "c_sleep"
    /\ UNCHANGED <<fills, storeVars, envVars, checkpoint, any_checkpoint_updates,
                   batch, attempts, inserted, queue, fetcherVars, histVars, ckpt0,
                   crashes, sig>>

\* tokio::time::sleep inside a select arm ends; the loop selects again.
ContinuousWake ==
    /\ pc = "c_sleep"
    /\ pc' = "select"
    /\ UNCHANGED <<dbVars, storeVars, envVars, checkpoint, total_processed,
                   any_checkpoint_updates, batch, attempts, inserted, queue,
                   fetcherVars, histVars, ckpt0, crashes, contVars>>

\* A loop whose shutdown arm is taken without a signal (a closed channel).
ContinuousShutdown_NoSignal ==
    /\ pc \in {"select", "c_insert"}
    /\ pc' = "done_ok"
    /\ c_result' = "Ok"
    /\ UNCHANGED <<dbVars, storeVars, envVars, checkpoint, total_processed,
                   any_checkpoint_updates, batch, attempts, inserted, queue,
                   fetcherVars, histVars, ckpt0, crashes, c_current_start,
                   c_cursor, sig>>

\* select!: shutdown_rx.recv() completes while the fetch_and_process_batch
\* future is pending; the loop breaks and the pending future is dropped.  A
\* future dropped inside insert_fills leaves the chunks it committed and rolls
\* back the open transaction, as an insert_fills that fails at that point does.
ContinuousShutdown ==
    /\ pc \in {"select", "c_insert"}
    /\ sig = "sent"
    /\ pc' = "done_ok"
    /\ c_result' = "Ok"
    /\ IF pc = "c_insert"
       THEN \E t \in {fills} \cup {r.table : r \in {o \in InsertOutcomes(fills, batch.fills) : ~o.ok}} :
               fills' = t
       ELSE UNCHANGED fills
    /\ UNCHANGED <<ckpt, storeVars, envVars, checkpoint, total_processed,
                   any_checkpoint_updates, batch, attempts, inserted, queue,
                   fetcherVars, histVars, ckpt0, crashes, c_current_start,
                   c_cursor, sig>>

ContinuousNext ==
    \/ ContinuousStart
    \/ Signal
    \/ ContinuousFetch
    \/ ContinuousInsert
    \/ ContinuousHandleOk
    \/ ContinuousWake
    \/ ContinuousShutdown

SpecContinuous == ContinuousInit /\ [][ContinuousNext]_vars

\* The step of ContinuousInsert that changes no table: insert_fills returns
\* Ok(0) for a batch without fills, and for any other batch an error of its
\* first statement.  It is enabled exactly when ContinuousInsert is.
InsertReturns ==
    /\ pc = "c_insert"
    /\ IF batch.fills = <<>>
       THEN /\ inserted' = 0
            /\ insertedLog' = Append(insertedLog, batch.hour)
            /\ pc' = "c_ok"
       ELSE /\ pc' = "c_sleep"
            /\ UNCHANGED <<inserted, insertedLog>>
    /\ UNCHANGED <<dbVars, storeVars, envVars, checkpoint, total_processed,
                   any_checkpoint_updates, batch, attempts, queue, fetcherVars,
                   fetchLog, sentLog, preTable, ckpt0, crashes, contVars>>

\* The step of ContinuousShutdown that finds no transaction to roll back; it
\* is enabled exactly when ContinuousShutdown is.
ShutdownTaken ==
    /\ pc \in {"select", "c_insert"}
    /\ sig = "sent"
    /\ pc' = "done_ok"
    /\ c_result' = "Ok"
    /\ UNCHANGED <<dbVars, storeVars, envVars, checkpoint, total_processed,
                   any_checkpoint_updates, batch, attempts, inserted, queue,
                   fetcherVars, histVars, ckpt0, crashes, c_current_start,
                   c_cursor, sig>>

\* The runtime drives the loop's future: the loop does not stay for ever in a
\* fetch, an insert, a save or a sleep (for the insert and the shutdown the
\* condition is put on a step that is enabled whenever the action is).
\* select! polls shutdown_rx.recv() each time the loop comes back to it, so a
\* signal that stays in the channel is taken.
SpecContinuousFair ==
    /\ SpecContinuous
    /\ WF_vars(ContinuousFetch)
    /\ WF_vars(InsertReturns)
    /\ WF_vars(ContinuousHandleOk)
    /\ WF_vars(ContinuousWake)
    /\ SF_vars(ShutdownTaken)

\* The pipeline in either mode: `backfill` runs run_backfill and `continuous`
\* runs run_continuous (main.rs).
PipelineInit == BackfillInit \/ ContinuousInit

PipelineNext == BackfillNext \/ ContinuousNext

SpecPipeline == PipelineInit /\ [][PipelineNext]_vars

\* ------------------------------------------- retry_with_backoff (backoff.rs)

\* The variants of indexer_core::Error.
ErrorKinds ==
    {"Config", "Database", "Http", "Serialization", "Ingest", "Pipeline",
     "RateLimit", "Checkpoint", "Validation", "Io", "Internal"}

is_retryable(e) == e \in {"Database", "Http", "RateLimit", "Io"}

is_fatal(e) == e \in {"Config", "Validation"}

\* retry_with_backoff(operation, max_retries, ..) is called; the operation's
\* results are the caller's to choose.
RetryInit ==
    /\ fills = <<>>
    /\ ckpt = NoCkpt
    /\ s_phase = "init" /\ s_input = <<>> /\ s_first = NoResult
    /\ s_second = NoResult /\ s_paths = NoPaths
    /\ LaterIdle
    /\ RefreshIdle
    /\ HoursIdle
    /\ r_pc = "call"
    /\ r_max_retries \in 0..max_retries
    /\ r_attempts = 0
    /\ r_calls = <<>>
    /\ r_result = "none"
    /\ PageIdle
    /\ DecodeIdle
    /\ PipeIdle

\* A wrapper that gives up one failure later (attempts > max_retries).
RetryAttempt_OneMore ==
    /\ r_pc = "call"
    /\ r_attempts' = r_attempts + 1
    /\ \E res \in {"Ok"} \cup ErrorKinds :
          /\ r_calls' = Append(r_calls, res)
          /\ IF res = "Ok"
             THEN r_pc' = "done" /\ r_result' = "Ok"
             ELSE IF r_attempts' > r_max_retries
                  THEN r_pc' = "done" /\ r_result' = res
                  ELSE \E next_backoff \in {"Some", "None"} :
                          IF next_backoff = "Some"
                          THEN r_pc' = "sleep" /\ r_result' = r_result
                          ELSE r_pc' = "done" /\ r_result' = res
    /\ UNCHANGED <<r_max_retries, RetryRest>>

\* One turn of the loop: attempts += 1, operation().await, and the match on
\* its result.  next_backoff() is None once max_elapsed_time has passed.
RetryAttempt ==
    /\ r_pc = "call"
    /\ r_attempts' = r_attempts + 1
    /\ \E res \in {"Ok"} \cup ErrorKinds :
          /\ r_calls' = Append(r_calls, res)
          /\ IF res = "Ok"
             THEN r_pc' = "done" /\ r_result' = "Ok"
             ELSE IF r_attempts' >= r_max_retries
                  THEN r_pc' = "done" /\ r_result' = res
                  ELSE \E next_backoff \in {"Some", "None"} :
                          IF next_backoff = "Some"
                          THEN r_pc' = "sleep" /\ r_result' = r_result
                          ELSE r_pc' = "done" /\ r_result' = res
    /\ UNCHANGED <<r_max_retries, RetryRest>>

\* tokio::time::sleep(duration).await is over: the loop turns again.
RetrySleep ==
    /\ r_pc = "sleep"
    /\ r_pc' = "call"
    /\ UNCHANGED <<r_max_retries, r_attempts, r_calls, r_result, RetryRest>>

RetryNext == RetryAttempt \/ RetrySleep

SpecRetry == RetryInit /\ [][RetryNext]_vars

\* The operation's future and the sleep complete.
SpecRetryFair == SpecRetry /\ WF_vars(RetryAttempt) /\ WF_vars(RetrySleep)

\* ------------------------------------------- fetch_page (s3_source.rs)

\* The wall clock of the study goes up to MaxNow.
MaxNow == HourStart(FirstHour + NumHours) + 1

\* A caller that feeds each returned cursor back into fetch_page, starting
\* without a cursor or at a cursor a former call returned.
PageInit ==
    /\ fills = <<>>
    /\ ckpt = NoCkpt
    /\ s_phase = "init" /\ s_input = <<>> /\ s_first = NoResult
    /\ s_second = NoResult /\ s_paths = NoPaths
    /\ LaterIdle
    /\ RefreshIdle
    /\ HoursIdle
    /\ RetryIdle
    /\ DecodeIdle
    /\ p_pc = "call"
    /\ p_cursor \in {NoCursor,
                      Cursor(DayOf(HourStart(FirstHour)), HourOfDay(HourStart(FirstHour + 1)))}
    /\ p_batch = NoBatch
    /\ p_clock = 0
    /\ p_log = <<>>
    /\ archive = WellFormed
    /\ now \in HourStart(FirstHour) .. MaxNow
    /\ start_from \in {HourStart(FirstHour), Tick(FirstHour, 1)}
    /\ end_at = 0
    /\ crashes = 0
    /\ ckpt0 = NoCkpt
    /\ ProcessIdle

\* fetch_page(start_from, cursor): the caller keeps the cursor of the batch.
PageFetch ==
    /\ p_pc = "call"
    /\ LET b == fetch_page(start_from, p_cursor)
       IN /\ p_log' = Append(p_log, b.hour)
          /\ p_clock' = now
          /\ IF b.ok
             THEN p_batch' = b /\ p_cursor' = b.cursor /\ p_pc' = "call"
             ELSE p_pc' = "err" /\ UNCHANGED <<p_batch, p_cursor>>
    /\ UNCHANGED <<now, PageRest>>

\* Time passes between two calls.
PageClock ==
    /\ p_pc = "call"
    /\ now < MaxNow
    /\ now' = now + 1
    /\ UNCHANGED <<pageVars, PageRest>>

PageNext == PageFetch \/ PageClock

SpecPage == PageInit /\ [][PageNext]_vars

\* ------------------------------------------------ decoder (s3_source.rs)

\* The dates of determine_data_path and parse_fills, as days of 2025:
\* 2025-03-22, 2025-05-25, 2025-07-27.
V1StartDay == 81
V2StartDay == 145
V3StartDay == 208

V1Start == V1StartDay * DayTicks
V2Start == V2StartDay * DayTicks
V3Start == V3StartDay * DayTicks

\* S3Source::determine_data_path
determine_data_path(date) ==
    IF date >= V3Start THEN "node_fills_by_block/hourly"
    ELSE IF date >= V2Start THEN "node_fills/hourly"
    ELSE IF date >= V1Start THEN "node_trades/hourly"
    ELSE "node_trades/hourly"

\* A parse_fills that applies FillByBlock only after 2025-07-27T00:00:00Z.
LineSchema_Late(date) ==
    IF date > V3Start THEN "FillByBlock"
    ELSE IF date >= V2Start THEN "NodeFill"
    ELSE "NodeTrade"

\* parse_fills: the type serde_json::from_str is asked for on the date.
LineSchema(date) ==
    IF date >= V3Start THEN "FillByBlock"
    ELSE IF date >= V2Start THEN "NodeFill"
    ELSE "NodeTrade"

\* An absent optional string of a record (fee, closedPnl).
Absent == "absent"

IntV(n) == [k |-> "int", v |-> n]

\* str::parse::<f64>: a decimal string parses, "NaN" parses to NaN, and
\* "abc" does not parse.
ParseF64(str) ==
    CASE str = "100" -> [ok |-> TRUE, v |-> Fin(100)]
      [] str = "30" -> [ok |-> TRUE, v |-> Fin(30)]
      [] str = "0" -> [ok |-> TRUE, v |-> Fin(0)]
      [] str = "-5" -> [ok |-> TRUE, v |-> Fin(0 - 50)]
      [] str = "NaN" -> [ok |-> TRUE, v |-> NaN]
      [] OTHER -> [ok |-> FALSE, v |-> NoneF]

\* Option<String>.and_then(|f| f.parse::<f64>().ok())
ParseOptF64(str) ==
    IF str = Absent THEN NoneF
    ELSE IF ParseF64(str).ok THEN ParseF64(str).v ELSE NoneF

\* str::to_uppercase on the side strings of the study
to_uppercase(str) ==
    CASE str = "b" -> "B"
      [] str = "a" -> "A"
      [] str = "Sell" -> "SELL"
      [] str = "buy" -> "BUY"
      [] str = "x" -> "X"
      [] OTHER -> str

\* The match on the side: "" stands for the Err(Validation) arm.
ParseSide(str) ==
    LET u == to_uppercase(str)
    IN IF u \in {"BUY", "B"} THEN "BUY"
       ELSE IF u \in {"SELL", "S", "A"} THEN "SELL"
       ELSE ""

\* A timestamp DateTime::from_timestamp_millis cannot hold.
OutOfRange == 0 - 1

NoFill == MkFill(0, "", "", NoneF, NoneF, NoneF, 0)

\* parse_fill_data, parse_node_fill and parse_trade_fill have one body: side,
\* then price, then size (each an Err(Validation) when it fails), fee and
\* closed_pnl (None when they do not parse), then the timestamp.
ParseRecord(user, side, px, sz, coin, time, fee, closed_pnl, block_number) ==
    IF ParseSide(side) = "" THEN [ok |-> FALSE, fill |-> NoFill]
    ELSE IF ~ParseF64(px).ok THEN [ok |-> FALSE, fill |-> NoFill]
    ELSE IF ~ParseF64(sz).ok THEN [ok |-> FALSE, fill |-> NoFill]
    ELSE IF time = OutOfRange THEN [ok |-> FALSE, fill |-> NoFill]
    ELSE [ok |-> TRUE,
          fill |-> [MkFill(user, coin, ParseSide(side), ParseF64(px).v,
                           ParseF64(sz).v, ParseOptF64(fee), time)
                      EXCEPT !.closed_pnl = ParseOptF64(closed_pnl),
                             !.block_number = block_number]]

parse_fill_data(user_address, fill, block_number) ==
    ParseRecord(user_address, fill.side, fill.px, fill.sz, fill.coin, fill.time,
                fill.fee, fill.closedPnl, block_number)

parse_node_fill(node_fill) ==
    ParseRecord(node_fill.user, node_fill.side, node_fill.px, node_fill.sz,
                node_fill.coin, node_fill.time, node_fill.fee,
                node_fill.closedPnl, NullV)

parse_trade_fill(trade, side_info) ==
    ParseRecord(side_info.user, side_info.side, trade.px, trade.sz, trade.coin,
                trade.time, side_info.fee, Absent, NullV)

\* A record of a line: FillEvent (user with FillData), NodeFill, or SideInfo
\* (user, side and fee only).
Rec(user, side, px, sz, fee, closedPnl, time) ==
    [user |-> user, side |-> side, px |-> px, sz |-> sz, coin |-> "BTC",
     time |-> time, fee |-> fee, closedPnl |-> closedPnl]

Side(user, side, fee) == Rec(user, side, "", "", fee, Absent, 0)

\* The lines of an object: json names the type whose fields the line has
\* ("text" for a line that is no JSON object), "" an empty line.
BlockLine(block_number, events) ==
    [json |-> "FillByBlock", block_number |-> block_number, px |-> "", sz |-> "",
     coin |-> "", time |-> 0, items |-> events]

FillLine(r) ==
    [json |-> "NodeFill", block_number |-> 0, px |-> "", sz |-> "", coin |-> "",
     time |-> 0, items |-> <<r>>]

TradeLine(px, sz, time, side_info) ==
    [json |-> "NodeTrade", block_number |-> 0, px |-> px, sz |-> sz,
     coin |-> "BTC", time |-> time, items |-> side_info]

OtherLine(json) ==
    [json |-> json, block_number |-> 0, px |-> "", sz |-> "", coin |-> "",
     time |-> 0, items |-> <<>>]

\* A loop over the events that a failed parse_fill_data ends.
RECURSIVE BlockFills_StopAtFailure(_, _)
BlockFills_StopAtFailure(events, block_number) ==
    IF events = <<>> THEN <<>>
    ELSE LET r == parse_fill_data(Head(events).user, Head(events), IntV(block_number))
         IN IF r.ok
            THEN <<r.fill>> \o BlockFills_StopAtFailure(Tail(events), block_number)
            ELSE <<>>

\* The events of one FillByBlock line: a failed parse_fill_data is skipped.
RECURSIVE BlockFills(_, _)
BlockFills(events, block_number) ==
    IF events = <<>> THEN <<>>
    ELSE LET r == parse_fill_data(Head(events).user, Head(events), IntV(block_number))
         IN (IF r.ok THEN <<r.fill>> ELSE <<>>)
                \o BlockFills(Tail(events), block_number)

\* The side_info of one NodeTrade line: a failed parse_trade_fill is returned.
RECURSIVE TradeFills(_, _)
TradeFills(trade, side_info) ==
    IF side_info = <<>> THEN [ok |-> TRUE, fills |-> <<>>]
    ELSE LET r == parse_trade_fill(trade, Head(side_info))
             rest == TradeFills(trade, Tail(side_info))
         IN IF ~r.ok THEN [ok |-> FALSE, fills |-> <<>>]
            ELSE IF ~rest.ok THEN rest
            ELSE [ok |-> TRUE, fills |-> <<r.fill>> \o rest.fills]

\* One turn of the loop of parse_fills over the lines.
LineFills(line, date) ==
    IF line.json = "" THEN [ok |-> TRUE, fills |-> <<>>]
    ELSE IF line.json # LineSchema(date) THEN [ok |-> FALSE, fills |-> <<>>]
    ELSE IF LineSchema(date) = "FillByBlock"
         THEN [ok |-> TRUE, fills |-> BlockFills(line.items, line.block_number)]
    ELSE IF LineSchema(date) = "NodeFill"
         THEN LET r == parse_node_fill(line.items[1])
              IN [ok |-> r.ok, fills |-> IF r.ok THEN <<r.fill>> ELSE <<>>]
    ELSE TradeFills(line, line.items)

\* S3Source::parse_fills
RECURSIVE parse_fills(_, _)
parse_fills(lines, date) ==
    IF lines = <<>> THEN [ok |-> TRUE, fills |-> <<>>]
    ELSE LET l == LineFills(Head(lines), date)
             rest == parse_fills(Tail(lines), date)
         IN IF ~l.ok THEN [ok |-> FALSE, fills |-> <<>>]
            ELSE IF ~rest.ok THEN rest
            ELSE [ok |-> TRUE, fills |-> l.fills \o rest.fills]

\* The lines of the study: records that decode, and one record for each way
\* a record can be wrong.
DecodeLines ==
    LET RecGood == Rec(1, "B", "100", "30", "30", Absent, 1)
        RecAsk == Rec(2, "a", "100", "30", Absent, "-5", 1)
        RecUnknownSide == Rec(3, "x", "100", "30", Absent, Absent, 1)
        RecBadPrice == Rec(4, "Sell", "abc", "30", Absent, Absent, 1)
        RecBadFee == Rec(5, "Sell", "100", "30", "abc", Absent, 1)
        RecZeroPrice == Rec(6, "buy", "0", "30", Absent, Absent, 1)
        RecNegativeSize == Rec(7, "B", "100", "-5", Absent, Absent, 1)
        RecBadTime == Rec(8, "B", "100", "30", Absent, Absent, OutOfRange)
    IN { BlockLine(7, <<RecGood, RecUnknownSide, RecAsk>>),
         BlockLine(7, <<RecGood, RecBadPrice>>),
         BlockLine(8, <<RecBadFee>>),
         BlockLine(8, <<RecZeroPrice, RecNegativeSize>>),
         BlockLine(9, <<RecBadTime>>),
         BlockLine(9, <<>>),
         FillLine(RecGood), FillLine(RecAsk), FillLine(RecUnknownSide),
         FillLine(RecBadPrice), FillLine(RecBadFee), FillLine(RecZeroPrice),
         TradeLine("100", "30", 1, <<Side(1, "B", "30"), Side(2, "a", Absent)>>),
         TradeLine("100", "30", 1, <<Side(1, "B", Absent), Side(3, "x", Absent)>>),
         TradeLine("abc", "30", 1, <<Side(4, "B", Absent)>>),
         TradeLine("100", "30", 1, <<Side(5, "S", "abc")>>),
         TradeLine("0", "30", 1, <<Side(6, "S", Absent)>>),
         TradeLine("100", "30", 1, <<>>),
         OtherLine(""),
         OtherLine("text") }

\* The dates of the study: the last instant and the first of each generation.
DecodeDates ==
    {V2Start - 1, V2Start, V3Start - TicksPerHour, V3Start - 1, V3Start}

MaxLines == 2

\* fetch_page has an object of at most MaxLines lines for the date.
DecodeInit ==
    /\ fills = <<>>
    /\ ckpt = NoCkpt
    /\ s_phase = "init" /\ s_input = <<>> /\ s_first = NoResult
    /\ s_second = NoResult /\ s_paths = NoPaths
    /\ LaterIdle
    /\ RefreshIdle
    /\ HoursIdle
    /\ RetryIdle
    /\ PageIdle
    /\ d_pc = "input"
    /\ d_date \in DecodeDates
    /\ d_lines \in SeqsUpTo(DecodeLines, MaxLines)
    /\ d_path = ""
    /\ d_result = NoDecode
    /\ PipeIdle

\* fetch_hour_data asks determine_data_path for the key, parse_fills decodes.
Decode ==
    /\ d_pc = "input"
    /\ d_path' = determine_data_path(d_date)
    /\ d_result' = parse_fills(d_lines, d_date)
    /\ d_pc' = "decoded"
    /\ UNCHANGED <<fills, d_date, d_lines, DecodeRest>>

\* The batch of a decoded hour is given to insert_fills; a validation error
\* gives no batch.
DecodeStore ==
    /\ d_pc = "decoded"
    /\ d_result.ok
    /\ \E r \in InsertOutcomes(fills, d_result.fills) : fills' = r.table
    /\ d_pc' = "stored"
    /\ UNCHANGED <<d_date, d_lines, d_path, d_result, DecodeRest>>

DecodeNext == Decode \/ DecodeStore

SpecDecode == DecodeInit /\ [][DecodeNext]_vars

\* ------------------------------------ refresh_hourly_stats_view (store.rs)

\* The views of the list (nine in the source).
NumViews == 3

\* The largest total_inserted of the study.
MaxInserted == 2

\* insert_fills has inserted its chunks and has total_inserted rows.
RefreshInit ==
    /\ fills = <<>>
    /\ ckpt = NoCkpt
    /\ s_phase = "init" /\ s_input = <<>> /\ s_first = NoResult
    /\ s_second = NoResult /\ s_paths = NoPaths
    /\ LaterIdle
    /\ HoursIdle
    /\ RetryIdle
    /\ PageIdle
    /\ DecodeIdle
    /\ v_pc = "start"
    /\ v_inserted \in 0..MaxInserted
    /\ v_log = <<>>
    /\ v_result = [ok |-> FALSE, count |-> 0]
    /\ PipeIdle

\* if total_inserted > 0 { self.refresh_hourly_stats_view().await?; }
RefreshCall ==
    /\ v_pc = "start"
    /\ IF v_inserted > 0
       THEN v_pc' = "lookup" /\ UNCHANGED v_result
       ELSE v_pc' = "done" /\ v_result' = [ok |-> TRUE, count |-> v_inserted]
    /\ UNCHANGED <<v_inserted, v_log, RefreshRest>>

\* The loop is at its end when every view of the list has been dealt with:
\* refresh_hourly_stats_view returns Ok(()) and insert_fills Ok(total_inserted).
RefreshAdvance(log) ==
    /\ v_log' = log
    /\ IF Len(log) = NumViews
       THEN v_pc' = "done" /\ v_result' = [ok |-> TRUE, count |-> v_inserted]
       ELSE v_pc' = "lookup" /\ UNCHANGED v_result

\* SELECT EXISTS (... pg_matviews ...).fetch_one(..).await?
RefreshLookup ==
    /\ v_pc = "lookup"
    /\ \E out \in {"exists", "missing", "error"} :
          CASE out = "exists" -> v_pc' = "refresh" /\ UNCHANGED <<v_log, v_result>>
            [] out = "missing" -> RefreshAdvance(Append(v_log, "missing"))
            [] out = "error" -> /\ v_pc' = "done"
                                /\ v_result' = [ok |-> FALSE, count |-> 0]
                                /\ UNCHANGED v_log
    /\ UNCHANGED <<v_inserted, RefreshRest>>

\* REFRESH MATERIALIZED VIEW CONCURRENTLY: an error is logged.
RefreshView ==
    /\ v_pc = "refresh"
    /\ \E out \in {"refreshed", "failed"} : RefreshAdvance(Append(v_log, out))
    /\ UNCHANGED <<v_inserted, RefreshRest>>

RefreshNext == RefreshCall \/ RefreshLookup \/ RefreshView

SpecRefresh == RefreshInit /\ [][RefreshNext]_vars

\* --------------------------------------------- get_missing_hours (store.rs)

\* The hours and the rows of the study.
StudyHours == 3
MaxRows == 2

StudyTicks == 0 .. (HourStart(StudyHours) - 1)

\* get_missing_hours(start, end) is called on a table of at most MaxRows rows.
HoursInit ==
    /\ \E ts \in SeqsUpTo(StudyTicks, MaxRows) :
          fills = [i \in DOMAIN ts |-> CopyRow(F(i, ts[i]))]
    /\ ckpt = NoCkpt
    /\ s_phase = "init" /\ s_input = <<>> /\ s_first = NoResult
    /\ s_second = NoResult /\ s_paths = NoPaths
    /\ LaterIdle
    /\ RefreshIdle
    /\ RetryIdle
    /\ PageIdle
    /\ DecodeIdle
    /\ h_pc = "input"
    /\ h_start \in StudyTicks
    /\ h_end \in (h_start + 1) .. HourStart(StudyHours)
    /\ h_result = {}
    /\ PipeIdle

HoursCall ==
    /\ h_pc = "input"
    /\ h_result' = get_missing_hours(fills, h_start, h_end)
    /\ h_pc' = "done"
    /\ UNCHANGED <<h_start, h_end, HoursRest>>

SpecHours == HoursInit /\ [][HoursCall]_vars

\* --------------------------------------------- market registry (market.rs)

\* Nothing of the store, of the pipeline or of the calls above is in use.
EarlierIdle ==
    /\ fills = <<>>
    /\ ckpt = NoCkpt
    /\ s_phase = "init" /\ s_input = <<>> /\ s_first = NoResult
    /\ s_second = NoResult /\ s_paths = NoPaths
    /\ RefreshIdle
    /\ HoursIdle
    /\ RetryIdle
    /\ PageIdle
    /\ DecodeIdle
    /\ PipeIdle

\* The market ids, the concurrent callers and the calls of the study.
NumMarkets == 2
NumCallers == 2
MaxCalls == 2

MarketIds == 1..NumMarkets
Callers == 1..NumCallers

\* No row of key (exchange_id, market_id).
NoMarket == [id |-> 0, symbol |-> "", is_active |-> FALSE]

\* A row and the next value of the id sequence; the cache beside them.
Registry(table, seq, cache) == [table |-> table, seq |-> seq, cache |-> cache]

\* load_markets_from_db: the ids of the active rows.
load_markets_from_db(table) ==
    [m \in MarketIds |-> IF table[m].is_active THEN table[m].id ELSE 0]

\* The stored routine get_or_create_market(exchange_id, market_id): the id of
\* the row of that key, created with the market_id as its symbol when there
\* is none.
sql_get_or_create_market(reg, m) ==
    IF reg.table[m].id # 0
    THEN reg
    ELSE [reg EXCEPT !.table[m] = [id |-> reg.seq, symbol |-> "market_id",
                                   is_active |-> TRUE],
                     !.seq = reg.seq + 1]

\* An upsert that replaces the row it conflicts with by a new one.
upsert_market_NewRow(reg, m) ==
    [table |-> [reg.table EXCEPT ![m] = [id |-> reg.seq, symbol |-> "name-USD",
                                         is_active |-> TRUE]],
     seq |-> reg.seq + 1,
     cache |-> [reg.cache EXCEPT ![m] = reg.seq]]

\* upsert_market: INSERT ... ON CONFLICT (exchange_id, market_id) DO UPDATE SET
\* symbol, market_type, base_asset, quote_asset ... RETURNING id, then
\* markets.insert(market_id, info).  The INSERT takes a value of the sequence
\* whether or not it conflicts.
upsert_market(reg, m) ==
    LET row == IF reg.table[m].id # 0
               THEN [reg.table[m] EXCEPT !.symbol = "name-USD"]
               ELSE [id |-> reg.seq, symbol |-> "name-USD", is_active |-> TRUE]
    IN [table |-> [reg.table EXCEPT ![m] = row],
        seq |-> reg.seq + 1,
        cache |-> [reg.cache EXCEPT ![m] = row.id]]

\* refresh_metadata when the endpoint answers and every upsert succeeds.
RECURSIVE refresh_metadata(_, _)
refresh_metadata(reg, universe) ==
    IF universe = <<>>
    THEN reg
    ELSE refresh_metadata(upsert_market(reg, Head(universe)), Tail(universe))

\* What the metadata endpoint may list.
Universes == {<<>>, <<1>>, <<1, 2>>}

\* The rows the table may hold when the registry is built.
StoredRows(m) ==
    {NoMarket, [id |-> m, symbol |-> "market_id", is_active |-> TRUE],
     [id |-> m, symbol |-> "name-USD", is_active |-> FALSE]}

\* What a call of get_or_create_market returned: whether the cache had the
\* market, Ok(id) or Err, the id the stored routine gave, and what became of
\* the refresh.
Returned(m, hit, ok, id, routine, refresh) ==
    [market |-> m, hit |-> hit, ok |-> ok, id |-> id, routine |-> routine,
     refresh |-> refresh]

NoReturn == Returned(0, FALSE, FALSE, 0, 0, "none")

\* MarketRegistry::new: the cache is loaded from the table, and the refresh
\* that follows either failed at once or went through.
MarketInit ==
    /\ EarlierIdle
    /\ StatsIdle
    /\ ChunkIdle
    /\ CursorIdle
    /\ g_universe \in Universes
    /\ \E table \in [MarketIds -> UNION {StoredRows(m) : m \in MarketIds}],
          refreshed \in BOOLEAN :
          /\ \A m \in MarketIds : table[m] \in StoredRows(m)
          /\ LET loaded == Registry(table, NumMarkets + 1, load_markets_from_db(table))
                 reg == IF refreshed THEN refresh_metadata(loaded, g_universe)
                        ELSE loaded
             IN /\ g_table = reg.table
                /\ g_seq = reg.seq
                /\ g_cache = reg.cache
    /\ g_pc = [c \in Callers |-> "idle"]
    /\ g_arg = [c \in Callers |-> 0]
    /\ g_id = [c \in Callers |-> 0]
    /\ g_i = [c \in Callers |-> 0]
    /\ g_calls = 0
    /\ g_ids = [m \in MarketIds |-> {}]
    /\ g_last = NoReturn

\* The call returns ret.
Return(ret) ==
    /\ g_last' = ret
    /\ g_ids' = IF ret.ok THEN [g_ids EXCEPT ![ret.market] = @ \cup {<<ret.id, ret.hit>>}]
                ELSE g_ids

\* get_or_create_market up to the cache lookup: a hit returns Ok(info.id).
GetOrCreateLookup(c) ==
    /\ g_pc[c] = "idle"
    /\ g_calls < MaxCalls
    /\ g_calls' = g_calls + 1
    /\ \E m \in MarketIds :
          IF g_cache[m] # 0
          THEN /\ Return(Returned(m, TRUE, TRUE, g_cache[m], 0, "none"))
               /\ UNCHANGED <<g_pc, g_arg>>
          ELSE /\ g_pc' = [g_pc EXCEPT ![c] = "routine"]
               /\ g_arg' = [g_arg EXCEPT ![c] = m]
               /\ UNCHANGED <<g_ids, g_last>>
    /\ UNCHANGED <<g_table, g_seq, g_cache, g_universe, g_id, g_i, MarketRest>>

\* SELECT get_or_create_market($1, $2) ... .fetch_one(&self.pool).await?
GetOrCreateRoutine(c) ==
    /\ g_pc[c] = "routine"
    /\ \/ LET reg == sql_get_or_create_market(Registry(g_table, g_seq, g_cache), g_arg[c])
          IN /\ g_table' = reg.table
             /\ g_seq' = reg.seq
             /\ g_id' = [g_id EXCEPT ![c] = reg.table[g_arg[c]].id]
             /\ g_pc' = [g_pc EXCEPT ![c] = "refresh"]
             /\ UNCHANGED <<g_arg, g_ids, g_last>>
       \/ /\ Return(Returned(g_arg[c], FALSE, FALSE, 0, 0, "none"))
          /\ g_pc' = [g_pc EXCEPT ![c] = "idle"]
          /\ g_arg' = [g_arg EXCEPT ![c] = 0]
          /\ UNCHANGED <<g_table, g_seq, g_id>>
    /\ UNCHANGED <<g_cache, g_universe, g_i, g_calls, MarketRest>>

\* refresh_metadata inside get_or_create_market: the next upsert_market.
RefreshUpsert(c) ==
    /\ g_pc[c] = "refresh"
    /\ g_i[c] < Len(g_universe)
    /\ LET reg == upsert_market(Registry(g_table, g_seq, g_cache), g_universe[g_i[c] + 1])
       IN /\ g_table' = reg.table
          /\ g_seq' = reg.seq
          /\ g_cache' = reg.cache
    /\ g_i' = [g_i EXCEPT ![c] = g_i[c] + 1]
    /\ UNCHANGED <<g_universe, g_pc, g_arg, g_id, g_calls, g_ids, g_last, MarketRest>>

\* The caller leaves get_or_create_market.
Leave(c) ==
    /\ g_pc' = [g_pc EXCEPT ![c] = "idle"]
    /\ g_arg' = [g_arg EXCEPT ![c] = 0]
    /\ g_id' = [g_id EXCEPT ![c] = 0]
    /\ g_i' = [g_i EXCEPT ![c] = 0]
    /\ UNCHANGED <<g_table, g_seq, g_cache, g_universe, g_calls, MarketRest>>

\* A refresh error that the caller is handed.
RefreshFails_Propagated(c) ==
    /\ g_pc[c] = "refresh"
    /\ Return(Returned(g_arg[c], FALSE, FALSE, 0, g_id[c], "failed"))
    /\ Leave(c)

\* refresh_metadata returns Err (a POST or its JSON fails, or an upsert does):
\* if let Err(e) = self.refresh_metadata().await { debug!(..) }, then Ok(id).
RefreshFails(c) ==
    /\ g_pc[c] = "refresh"
    /\ Return(Returned(g_arg[c], FALSE, TRUE, g_id[c], g_id[c], "failed"))
    /\ Leave(c)

\* refresh_metadata returns Ok(()) after the last upsert, then Ok(id).
RefreshReturns(c) ==
    /\ g_pc[c] = "refresh"
    /\ g_i[c] = Len(g_universe)
    /\ Return(Returned(g_arg[c], FALSE, TRUE, g_id[c], g_id[c], "ok"))
    /\ Leave(c)

MarketNext ==
    \E c \in Callers :
        \/ GetOrCreateLookup(c)
        \/ GetOrCreateRoutine(c)
        \/ RefreshUpsert(c)
        \/ RefreshFails(c)
        \/ RefreshReturns(c)

SpecMarket == MarketInit /\ [][MarketNext]_vars

\* --------------------------- incremental stats (incremental_stats.rs)

\* MAILBOX_CAPACITY stands for the 1000 of mpsc::channel (line 27) and
\* HOUR_CONCURRENCY for the 4 of buffer_unordered (line 98), scaled down so
\* that a few requests fill the mailbox and one request spans more hours
\* than run at once.
MAILBOX_CAPACITY == 1
HOUR_CONCURRENCY == 2
MaxPublishes == 2

\* The fills table of the study: one row in each of the first n hours.
StatsTable(n) == [i \in 1..n |-> CopyRow(F(i, HourStart(i - 1)))]

\* The (start_time, end_time) of the requests of the study.
StatsRequests ==
    {<<0, 0>>, <<0, HourStart(StudyHours)>>}

\* A try_send that finds room in a full channel.
try_send_Unbounded(mailbox, receiver_gone, request) ==
    IF receiver_gone
    THEN [outcome |-> "Closed", mailbox |-> mailbox]
    ELSE [outcome |-> "Ok", mailbox |-> Append(mailbox, request)]

\* mpsc::Sender::try_send
try_send(mailbox, receiver_gone, request) ==
    IF receiver_gone
    THEN [outcome |-> "Closed", mailbox |-> mailbox]
    ELSE IF Len(mailbox) >= MAILBOX_CAPACITY
    THEN [outcome |-> "Full", mailbox |-> mailbox]
    ELSE [outcome |-> "Ok", mailbox |-> Append(mailbox, request)]

\* get_affected_hours_static: SELECT DISTINCT DATE_TRUNC('hour', timestamp)
\* FROM fills WHERE timestamp >= $1 AND timestamp <= $2
get_affected_hours_static(table, from, to) ==
    {HourIndex(table[i].timestamp) :
        i \in {j \in 1..Len(table) : table[j].timestamp >= from /\ table[j].timestamp <= to}}

\* A call of queue_update: what try_send returned, what the call returned, and
\* whether it left the mailbox as it was.
NoPublish == [outcome |-> "none", returned |-> "none", unchanged |-> TRUE]

\* The worker has finished no request.
NoProcessed == [count |-> 0, request |-> <<>>, queried |-> FALSE, hours |-> {},
                failed |-> {}, earlier |-> {}]

\* IncrementalStatsUpdater::new: an empty channel and the worker at recv().
StatsInit ==
    /\ \E n \in {0, StudyHours} : fills = StatsTable(n)
    /\ ckpt = NoCkpt
    /\ s_phase = "init" /\ s_input = <<>> /\ s_first = NoResult
    /\ s_second = NoResult /\ s_paths = NoPaths
    /\ RefreshIdle
    /\ HoursIdle
    /\ RetryIdle
    /\ PageIdle
    /\ DecodeIdle
    /\ PipeIdle
    /\ MarketIdle
    /\ ChunkIdle
    /\ CursorIdle
    /\ a_mailbox = <<>>
    /\ a_closed = FALSE
    /\ a_owner = "running"
    /\ a_w = "recv"
    /\ a_req = <<>>
    /\ a_pending = {}
    /\ a_running = {}
    /\ a_results = {}
    /\ a_accepted = <<>>
    /\ a_processed = NoProcessed
    /\ a_published = 0
    /\ a_last = NoPublish
    /\ a_atClose = 0

workerVars == <<a_w, a_req, a_pending, a_running, a_results, a_processed>>

\* queue_update: try_send, a log line whatever comes of it, Ok(()).
queue_update ==
    /\ a_owner = "running"
    /\ a_published < MaxPublishes
    /\ a_published' = a_published + 1
    /\ \E request \in StatsRequests :
          LET sent == try_send(a_mailbox, a_w = "exited", request)
          IN /\ a_mailbox' = sent.mailbox
             /\ a_accepted' = IF sent.outcome = "Ok" THEN Append(a_accepted, request)
                              ELSE a_accepted
             /\ a_last' = [outcome |-> sent.outcome, returned |-> "Ok",
                           unchanged |-> (sent.mailbox = a_mailbox)]
    /\ UNCHANGED <<a_closed, a_owner, workerVars, a_atClose, StatsRest, fills>>

\* shutdown up to the join: drop(self.update_tx)
shutdown ==
    /\ a_owner = "running"
    /\ a_closed' = TRUE
    /\ a_owner' = "joining"
    /\ a_atClose' = Len(a_mailbox)
    /\ UNCHANGED <<a_mailbox, workerVars, a_accepted, a_published, a_last, StatsRest, fills>>

\* let _ = self.worker_handle.await
ShutdownJoin ==
    /\ a_owner = "joining"
    /\ a_w = "exited"
    /\ a_owner' = "returned"
    /\ UNCHANGED <<a_mailbox, a_closed, workerVars, a_accepted, a_published, a_last,
                   a_atClose, StatsRest, fills>>

\* A worker that leaves its loop as soon as the channel is closed.
WorkerRecv_StopOnClose ==
    /\ a_w = "recv"
    /\ IF a_closed
       THEN a_w' = "exited" /\ UNCHANGED <<a_req, a_mailbox>>
       ELSE /\ a_mailbox # <<>>
            /\ a_req' = Head(a_mailbox)
            /\ a_mailbox' = Tail(a_mailbox)
            /\ a_w' = "hours"
    /\ UNCHANGED <<a_closed, a_owner, a_pending, a_running, a_results, a_processed,
                   a_accepted, a_published, a_last, a_atClose, StatsRest, fills>>

\* while let Some(request) = update_rx.recv().await: the next request, or None
\* once the channel is closed and empty.
WorkerRecv ==
    /\ a_w = "recv"
    /\ IF a_mailbox # <<>>
       THEN /\ a_req' = Head(a_mailbox)
            /\ a_mailbox' = Tail(a_mailbox)
            /\ a_w' = "hours"
       ELSE /\ a_closed
            /\ a_w' = "exited"
            /\ UNCHANGED <<a_req, a_mailbox>>
    /\ UNCHANGED <<a_closed, a_owner, a_pending, a_running, a_results, a_processed,
                   a_accepted, a_published, a_last, a_atClose, StatsRest, fills>>

\* The worker is done with its request: the affected hours were found or
\* not, these hours' recomputations ran to their end, and these failed.
WorkerDone(queried, hours, failed) ==
    /\ a_processed' = [count |-> a_processed.count + 1,
                       request |-> a_req,
                       queried |-> queried,
                       hours |-> hours,
                       failed |-> failed,
                       earlier |-> a_processed.earlier \cup
                                   (IF a_processed.count > 0 /\ ~a_processed.queried
                                    THEN {"request"} ELSE {}) \cup
                                   (IF a_processed.failed # {} THEN {"hour"} ELSE {})]
    /\ a_w' = "recv"
    /\ a_req' = <<>>
    /\ a_pending' = {}
    /\ a_running' = {}
    /\ a_results' = {}

\* process_update up to the fan-out: the query of the affected hours with `?`,
\* and Ok(()) when there is none.
ProcessUpdateHours ==
    /\ a_w = "hours"
    /\ \/ LET hours == get_affected_hours_static(fills, a_req[1], a_req[2])
          IN IF hours = {}
             THEN WorkerDone(TRUE, {}, {})
             ELSE /\ a_pending' = hours
                  /\ a_w' = "fanout"
                  /\ UNCHANGED <<a_req, a_running, a_results, a_processed>>
       \/ WorkerDone(FALSE, {}, {})
    /\ UNCHANGED <<a_mailbox, a_closed, a_owner, a_accepted, a_published, a_last,
                   a_atClose, StatsRest, fills>>

\* buffer_unordered(4) polls the next hour's future when fewer than 4 run.
HourBegin ==
    /\ a_w = "fanout"
    /\ a_pending # {}
    /\ Cardinality(a_running) < HOUR_CONCURRENCY
    /\ LET hour == CHOOSE h \in a_pending : \A k \in a_pending : h <= k
       IN /\ a_pending' = a_pending \ {hour}
          /\ a_running' = a_running \cup {hour}
    /\ UNCHANGED <<a_mailbox, a_closed, a_owner, a_w, a_req, a_results, a_processed,
                   a_accepted, a_published, a_last, a_atClose, StatsRest, fills>>

\* A recomputation whose failure ends the fan-out.
HourEnd_FailFast ==
    /\ a_w = "fanout"
    /\ \E hour \in a_running, result \in {"Ok", "Err"} :
          /\ a_results' = a_results \cup {<<hour, result>>}
          /\ IF result = "Err"
             THEN a_running' = {} /\ a_pending' = {}
             ELSE a_running' = a_running \ {hour} /\ UNCHANGED a_pending
    /\ UNCHANGED <<a_mailbox, a_closed, a_owner, a_w, a_req, a_processed,
                   a_accepted, a_published, a_last, a_atClose, StatsRest, fills>>

\* update_single_hour_static returns, with Ok or with Err.
HourEnd ==
    /\ a_w = "fanout"
    /\ \E hour \in a_running, result \in {"Ok", "Err"} :
          /\ a_results' = a_results \cup {<<hour, result>>}
          /\ a_running' = a_running \ {hour}
    /\ UNCHANGED <<a_mailbox, a_closed, a_owner, a_w, a_req, a_pending, a_processed,
                   a_accepted, a_published, a_last, a_atClose, StatsRest, fills>>

\* .collect().await, the warn! of each Err, Ok(()).
ProcessUpdateCollect ==
    /\ a_w = "fanout"
    /\ a_pending = {}
    /\ a_running = {}
    /\ WorkerDone(TRUE, {r[1] : r \in a_results},
                  {r[1] : r \in {x \in a_results : x[2] = "Err"}})
    /\ UNCHANGED <<a_mailbox, a_closed, a_owner, a_accepted, a_published, a_last,
                   a_atClose, StatsRest, fills>>

Worker == WorkerRecv \/ ProcessUpdateHours \/ HourBegin \/ HourEnd \/ ProcessUpdateCollect

StatsNext == queue_update \/ shutdown \/ ShutdownJoin \/ Worker

SpecStats == StatsInit /\ [][StatsNext]_vars

\* The runtime schedules the worker task and the task in shutdown.
SpecStatsFair == SpecStats /\ WF_vars(Worker) /\ WF_vars(ShutdownJoin)

\* ------------------------------------- insert_fills by row counts (store.rs)

\* The sizes of the source, unscaled: CHUNK_SIZE (line 44), BATCH_SIZE (line
\* 162), the parameters bound for one row (lines 174, 197-209) and the most
\* parameters one statement may carry (line 161).
ChunkRows == 50000
BatchRows == 5000
ParamsPerRow == 11
MaxParams == 65535

\* slice.chunks(size) over the fills from to to, as <<first, last>> ranges.
RECURSIVE ChunkRanges(_, _, _)
ChunkRanges(from, to, size) ==
    IF from > to THEN <<>>
    ELSE IF to - from + 1 <= size THEN << <<from, to>> >>
    ELSE << <<from, from + size - 1>> >> \o ChunkRanges(from + size, to, size)

\* A VALUES path that sends the chunk in one statement.
ValuesBatches_Whole(chunk) == << chunk >>

\* for batch in fills.chunks(BATCH_SIZE)
ValuesBatches(chunk) == ChunkRanges(chunk[1], chunk[2], BatchRows)

\* The lengths of the slices of the study.
InputLengths ==
    {0, 1, BatchRows, BatchRows + 1, ChunkRows, ChunkRows + 1,
     2 * ChunkRows + BatchRows + 1}

ChunkInit ==
    /\ EarlierIdle
    /\ MarketIdle
    /\ StatsIdle
    /\ CursorIdle
    /\ k_pc = "input"
    /\ k_len \in InputLengths
    /\ k_todo = <<>>
    /\ k_chunks = <<>>
    /\ k_batches = <<>>
    /\ k_stmts = <<>>
    /\ k_tx = 0
    /\ k_result = "none"

\* insert_fills: Ok(0) for an empty slice, else fills.chunks(CHUNK_SIZE).
ChunkCall ==
    /\ k_pc = "input"
    /\ IF k_len = 0
       THEN k_pc' = "done" /\ k_result' = "Ok" /\ UNCHANGED k_todo
       ELSE /\ k_pc' = "chunk"
            /\ k_todo' = ChunkRanges(1, k_len, ChunkRows)
            /\ UNCHANGED k_result
    /\ UNCHANGED <<k_len, k_chunks, k_batches, k_stmts, k_tx, ChunkRest>>

\* bulk_insert_fills_chunk(chunk): bulk_insert_with_copy in one transaction;
\* on its error the VALUES path.
ChunkCopy ==
    /\ k_pc = "chunk"
    /\ k_todo # <<>>
    /\ k_chunks' = Append(k_chunks, Head(k_todo))
    /\ k_tx' = k_tx + 1
    /\ \/ /\ k_todo' = Tail(k_todo)
          /\ UNCHANGED <<k_pc, k_batches, k_stmts>>
       \/ /\ k_pc' = "values"
          /\ k_batches' = ValuesBatches(Head(k_todo))
          /\ k_stmts' = <<>>
          /\ UNCHANGED k_todo
    /\ UNCHANGED <<k_len, k_result, ChunkRest>>

\* One turn of the loop of bulk_insert_with_values_optimized: pool.begin(),
\* one INSERT ... VALUES with 11 parameters a row, tx.commit(); any error
\* leaves insert_fills with `?`.
ValuesStatement ==
    /\ k_pc = "values"
    /\ k_batches # <<>>
    /\ k_tx' = k_tx + 1
    /\ LET sub == Head(k_batches)
           rows == sub[2] - sub[1] + 1
       IN \E committed \in BOOLEAN :
             /\ k_stmts' = Append(k_stmts, [from |-> sub[1], to |-> sub[2],
                                            params |-> ParamsPerRow * rows,
                                            tx |-> k_tx + 1, committed |-> committed])
             /\ IF committed
                THEN k_batches' = Tail(k_batches) /\ UNCHANGED <<k_pc, k_result>>
                ELSE k_pc' = "done" /\ k_result' = "Err" /\ UNCHANGED k_batches
    /\ UNCHANGED <<k_len, k_todo, k_chunks, ChunkRest>>

\* bulk_insert_with_values_optimized returns Ok(total_inserted).
ValuesReturn ==
    /\ k_pc = "values"
    /\ k_batches = <<>>
    /\ k_pc' = "chunk"
    /\ k_todo' = Tail(k_todo)
    /\ UNCHANGED <<k_len, k_chunks, k_batches, k_stmts, k_tx, k_result, ChunkRest>>

\* The loop over the chunks is at its end: Ok(total_inserted).
ChunkReturn ==
    /\ k_pc = "chunk"
    /\ k_todo = <<>>
    /\ k_pc' = "done"
    /\ k_result' = "Ok"
    /\ UNCHANGED <<k_len, k_todo, k_chunks, k_batches, k_stmts, k_tx, ChunkRest>>

ChunkNext == ChunkCall \/ ChunkCopy \/ ValuesStatement \/ ValuesReturn \/ ChunkReturn

SpecChunks == ChunkInit /\ [][ChunkNext]_vars

\* ------------------------------- fetch_page on a cursor string (s3_source.rs)

\* NaiveDate::parse_from_str(part, "%Y%m%d"): the day number of the date, for
\* the strings of the study.
ParseDate(str) ==
    CASE str = "19700101" -> [ok |-> TRUE, v |-> 0]
      [] str = "19700102" -> [ok |-> TRUE, v |-> 1]
      [] OTHER -> [ok |-> FALSE, v |-> 0]

\* part.parse::<u32>(), for the strings of the study.
ParseU32(str) ==
    CASE str = "0" -> [ok |-> TRUE, v |-> 0]
      [] str = "1" -> [ok |-> TRUE, v |-> 1]
      [] str = "22" -> [ok |-> TRUE, v |-> 22]
      [] str = "23" -> [ok |-> TRUE, v |-> 23]
      [] str = "24" -> [ok |-> TRUE, v |-> 24]
      [] str = "99" -> [ok |-> TRUE, v |-> 99]
      [] OTHER -> [ok |-> FALSE, v |-> 0]

\* The head of fetch_page: the position the cursor names.  A cursor of other
\* than two parts is dropped for start_from, a part that does not parse is a
\* Validation error, and date.and_hms_opt(hour, 0, 0) is None for an hour of
\* 24 or more, on which unwrap() panics.
ParseCursor(cursor) ==
    IF ~cursor.some \/ Len(cursor.parts) # 2
    THEN [kind |-> "start_from", cursor |-> NoCursor]
    ELSE LET date == ParseDate(cursor.parts[1])
             hour == ParseU32(cursor.parts[2])
         IN IF ~date.ok THEN [kind |-> "Validation", cursor |-> NoCursor]
            ELSE IF ~hour.ok THEN [kind |-> "Validation", cursor |-> NoCursor]
            ELSE IF hour.v >= HoursPerDay THEN [kind |-> "panic", cursor |-> NoCursor]
            ELSE [kind |-> "cursor", cursor |-> Cursor(date.v, hour.v)]

\* What a checkpoint may hand to fetch_page: no cursor, cursors as fetch_page
\* writes them, and strings it never writes.
DateParts == {"19700101", "19700102", "1970-01-01", ""}
HourParts == {"0", "22", "23", "24", "99", "-1", "x", ""}
CursorStrings ==
    {[some |-> FALSE, parts |-> <<>>]} \cup
    {[some |-> TRUE, parts |-> p] :
        p \in {<<"">>, <<"19700101">>, <<"19700101", "22", "0">>} \cup
              {<<d, h>> : d \in DateParts, h \in HourParts}}

CursorInit ==
    /\ fills = <<>>
    /\ ckpt = NoCkpt
    /\ s_phase = "init" /\ s_input = <<>> /\ s_first = NoResult
    /\ s_second = NoResult /\ s_paths = NoPaths
    /\ RefreshIdle
    /\ HoursIdle
    /\ RetryIdle
    /\ PageIdle
    /\ DecodeIdle
    /\ MarketIdle
    /\ StatsIdle
    /\ ChunkIdle
    /\ archive = WellFormed
    /\ now \in {Tick(FirstHour + 1, 1), HourStart(FirstHour + NumHours) + DayTicks}
    /\ start_from \in {HourStart(FirstHour), Tick(FirstHour, 1)}
    /\ end_at = 0
    /\ crashes = 0
    /\ ckpt0 = NoCkpt
    /\ ProcessIdle
    /\ q_pc = "input"
    /\ q_cursor \in CursorStrings
    /\ q_result = [kind |-> "none", batch |-> NoBatch]

\* fetch_page(start_from, cursor): the position, then the hour's object.
CursorFetch ==
    /\ q_pc = "input"
    /\ q_pc' = "done"
    /\ LET at == ParseCursor(q_cursor)
       IN IF at.kind \in {"Validation", "panic"}
          THEN q_result' = [kind |-> at.kind, batch |-> NoBatch]
          ELSE LET b == fetch_page(start_from, at.cursor)
               IN q_result' = [kind |-> IF b.ok THEN at.kind ELSE "Ingest",
                               batch |-> IF b.ok THEN b ELSE NoBatch]
    /\ UNCHANGED <<q_cursor, CursorRest>>

SpecCursor == CursorInit /\ [][CursorFetch]_vars

\* ------------------------------------------------------------ store claims

\* The conflict key under which a fill is stored: price and size as the
\* NUMERIC(20,10) values the columns hold.
StoredNumeric(x) == IF x.k = "fin" THEN Fin(Numeric2010(x.v)) ELSE x

ConflictKey(f) ==
    <<ExchangeId, f.user_address, MarketId(f.coin), f.timestamp,
      StoredNumeric(f.price), StoredNumeric(f.size)>>

InputKeys(input) == {ConflictKey(input[i]) : i \in 1..Len(input)}

NoDuplicateKeys(table) ==
    \A i, j \in 1..Len(table) : Key(table[i]) = Key(table[j]) => i = j

\* C2: insert_fills is idempotent under the conflict key: after a successful
\* call, a second call on the same input leaves the fills table (rows and row
\* count) as the first call left it, and the count it returns is 0.
C2_InsertFillsIdempotent ==
    (s_phase = "second" /\ s_first.ok) =>
        /\ fills = s_first.post
        /\ Len(fills) = Len(s_first.post)
        /\ s_second.ok => s_second.count = 0

C2_Witness ==
    /\ s_phase = "second"
    /\ s_first.ok /\ s_first.count > 0
    /\ s_second.ok
    /\ NumChunks(s_input) > 1

CallCountsRowsAdded(c, input) ==
    c.ok => /\ c.count = Len(c.post) - Len(c.pre)
            /\ c.count = Cardinality(InputKeys(input) \ Keys(c.pre))
            /\ Keys(c.post) = Keys(c.pre) \cup InputKeys(input)

\* C9: the count insert_fills returns is the number of rows the call added
\* to the fills table, which is the number of distinct conflict keys of the
\* input that were not in the table; a count below the input length is
\* returned as a success.
C9_CountIsRowsAdded ==
    /\ s_phase \in {"first", "second"} => CallCountsRowsAdded(s_first, s_input)
    /\ s_phase = "second" => CallCountsRowsAdded(s_second, s_input)

C9_Witness ==
    /\ s_phase = "first"
    /\ s_first.ok
    /\ s_first.count > 0
    /\ s_first.count < Len(s_input)

\* C10: on the same table and the same chunk, the bulk-copy path and the
\* multi-row VALUES path return the same inserted count and leave the same
\* fills table (stated for the chunks on which both paths succeed).
C10_PathsAgree ==
    (s_paths.done /\ s_paths.copy.ok /\ s_paths.values.ok) =>
        /\ s_paths.copy.count = s_paths.values.count
        /\ s_paths.copy.table = s_paths.values.table

\* ---------------------------------------------------------- backfill claims

\* What one uninterrupted, error-free run_backfill fetches, from the fetcher's
\* starting point: the fills in fetch order, and ok = FALSE when an hour it
\* asks for is not in the archive.
RECURSIVE SingleRun(_, _)
SingleRun(cs, cur) ==
    IF cs >= end_at THEN [ok |-> TRUE, fills |-> <<>>]
    ELSE LET b == fetch_page(cs, cur)
         IN IF ~b.ok THEN [ok |-> FALSE, fills |-> <<>>]
            ELSE IF ~b.has_more THEN [ok |-> TRUE, fills |-> b.fills]
            ELSE LET rest == SingleRun(IF b.fills # <<>> THEN Last(b.fills).timestamp
                                       ELSE cs, b.cursor)
                 IN [ok |-> rest.ok, fills |-> b.fills \o rest.fills]

\* The run that starts on the empty table with the checkpoint the first start
\* found.
Uninterrupted ==
    LET cp == [cursor |-> ckpt0.cursor, last_record_ts |-> ckpt0.last_record_ts]
    IN SingleRun(EffectiveStart(cp), EffectiveCursor(cp))

\* C3: a backfill that was killed and started again with the same range ends
\* with the table one uninterrupted run produces: same keys, each once.
C3_ResumeEqualsSingleRun ==
    (crashes > 0 /\ pc \in {"done_ok", "skipped"} /\ Uninterrupted.ok)
        => /\ Keys(fills) = InputKeys(Uninterrupted.fills)
           /\ NoDuplicateKeys(fills)

\* C4: when insert_fills under retry_with_backoff has succeeded, the table is
\* the table before the first attempt followed by one row for each conflict
\* key of the batch that was not in it, whatever the failed attempts committed.
C4_ExactlyOnceUnderRetry ==
    pc = "after_insert" =>
        /\ Len(fills) >= Len(preTable)
        /\ SubSeq(fills, 1, Len(preTable)) = preTable
        /\ Keys(fills) = Keys(preTable) \cup InputKeys(batch.fills)
        /\ NoDuplicateKeys(fills)

\* A success that follows a failed attempt which had committed part of the
\* batch: the last call added fewer rows than the batch brought.
C4_Witness ==
    /\ pc = "after_insert"
    /\ attempts >= 1
    /\ inserted < Cardinality(InputKeys(batch.fills) \ Keys(preTable))
    /\ inserted > 0

\* Batches fetched and not yet received by the consumer.
InFlight == Len(queue) + (IF f_pc = "send" THEN 1 ELSE 0)

\* C5 as stated: while the queue is full no further hour is fetched.
C5_NoFetchWhileQueueFull ==
    [][Len(queue) = channel_buffer_size => fetchLog' = fetchLog]_vars

\* C5: at most channel_buffer_size + 1 batches are fetched and not received;
\* with the queue full and a batch held in send, the fetcher stays in send and
\* fetches nothing until the consumer takes a batch (or is gone).
C5_Backpressure ==
    /\ [](InFlight <= channel_buffer_size + 1)
    /\ [][(Len(queue) = channel_buffer_size /\ f_pc = "send" /\ ~RxDropped
            /\ Len(queue') >= Len(queue))
           => (f_pc' = "send" /\ fetchLog' = fetchLog)]_vars

\* The fetcher suspended in send behind a full queue.
C5_Witness ==
    /\ Len(queue) = channel_buffer_size
    /\ f_pc = "send"
    /\ ~RxDropped

StrictlyIncreasing(s) == \A i \in 1..(Len(s) - 1) : s[i] < s[i + 1]

IsPrefix(s, t) == Len(s) <= Len(t) /\ SubSeq(t, 1, Len(s)) = s

\* C6 as stated: no batch sent is lost, whatever way the run ends.
C6_EverySentBatchInserted ==
    (FetcherDone /\ pc \in {"done_ok", "done_err"}) => insertedLog = sentLog

\* C6: hours are fetched and sent in strictly increasing order; the batches
\* inserted are, in order, the first of those sent; a run that returns Ok has
\* inserted every batch sent.
C6_OrderedDelivery ==
    /\ StrictlyIncreasing(fetchLog)
    /\ StrictlyIncreasing(sentLog)
    /\ IsPrefix(sentLog, fetchLog)
    /\ IsPrefix(insertedLog, sentLog)
    /\ (pc = "done_ok" => insertedLog = sentLog)

\* A run that returned Ok after more than one batch.
C6_Witness ==
    /\ pc = "done_ok"
    /\ Len(insertedLog) >= 2
    /\ insertedLog = sentLog

\* C8: no hour that begins at or after end is fetched and no fill stamped at
\* or after end is inserted (the table starts empty).
C8_BoundedByEnd ==
    /\ \A i \in 1..Len(fetchLog) : HourStart(fetchLog[i]) < end_at
    /\ \A i \in 1..Len(fills) : fills[i].timestamp < end_at

\* -------------------------------------------------------- continuous claims

\* C1: the last_record_ts of the persisted checkpoint never decreases from
\* one save to the next.
C1_CheckpointMonotonic ==
    [][(ckpt.present /\ ckpt.last_record_ts.some /\ ckpt'.last_record_ts.some)
        => ckpt'.last_record_ts.v >= ckpt.last_record_ts.v]_vars

\* C7: a cycle whose insert is in flight ends with the insert's own result,
\* never with the shutdown.
C7_NeverMidBatch ==
    [][pc = "c_insert" => pc' \in {"c_insert", "c_ok", "c_sleep"}]_vars

\* C11: run_backfill returns at the skip exactly when the range holds rows and
\* no hour of it is missing, and then nothing else has happened: no checkpoint
\* read or written, no fetcher, no fetch, no insert; otherwise, when its
\* look-ups succeed, it starts the fetcher.
C11_SkipHasNoEffect ==
    [][(pc = "start" /\ pc' # "start") =>
         LET complete == /\ check_time_range_exists(fills, start_from, end_at) > 0
                         /\ get_missing_hours(fills, start_from, end_at) = {}
         IN /\ pc' \in {"skipped", "recv", "done_err"}
            /\ (pc' = "skipped" => complete)
            /\ (pc' = "recv" => (~complete /\ f_pc' = "loop"))
            /\ (pc' = "skipped" =>
                  /\ UNCHANGED <<fills, ckpt, checkpoint, total_processed, queue>>
                  /\ f_pc' = "none" /\ fetchLog' = <<>> /\ insertedLog' = <<>>)]_vars

\* A restart that found rows committed before the kill and skipped.
C11_Witness ==
    /\ crashes > 0
    /\ pc = "skipped"
    /\ fills # <<>>
    /\ f_pc = "none"

\* C12: the fetcher starts at the requested start with no cursor when there is
\* no checkpoint or the requested start is earlier than the checkpoint's
\* last_record_ts, and otherwise at the checkpoint's last_record_ts with the
\* checkpoint's cursor.
C12_EffectiveStart ==
    [][(pc = "start" /\ pc' = "recv") =>
         IF ckpt.present /\ ckpt.last_record_ts.some
         THEN IF start_from < ckpt.last_record_ts.v
              THEN f_current_start' = start_from /\ f_cursor' = NoCursor
              ELSE /\ f_current_start' = ckpt.last_record_ts.v
                   /\ f_cursor' = ckpt.cursor
         ELSE f_current_start' = start_from /\ f_cursor' = NoCursor]_vars

\* A fetcher just started behind a checkpoint that is later than the
\* requested start: it has the requested start and no cursor.
C12_Witness ==
    /\ pc = "recv" /\ f_pc = "loop" /\ fetchLog = <<>>
    /\ ckpt.present /\ ckpt.cursor.some
    /\ start_from < ckpt.last_record_ts.v
    /\ f_current_start = start_from
    /\ f_cursor = NoCursor

\* C13: when the consumer has processed a batch without fills, the
\* checkpoint's cursor is that batch's next-hour cursor and its last_record_ts
\* is what it was.
C13_EmptyHourAdvancesCursor ==
    [][(pc = "after_insert" /\ batch.fills = <<>> /\ pc' = "recv") =>
         /\ checkpoint'.cursor = batch.cursor
         /\ checkpoint'.last_record_ts = checkpoint.last_record_ts]_vars

\* C14: the consumer leaves its loop only when the fetcher has stopped and the
\* queue is empty; when it then waits for the fetcher every batch sent has
\* been inserted and the persisted checkpoint is the in-memory checkpoint of
\* the last advancing batch (the row found at the start if no batch advanced
\* it); the run's result is then the fetcher's.
C14_DrainThenSaveThenJoin ==
    /\ [](pc = "join" =>
            /\ FetcherDone
            /\ queue = <<>>
            /\ insertedLog = sentLog
            /\ IF any_checkpoint_updates THEN ckpt = SavedRow(checkpoint)
               ELSE ckpt = ckpt0)
    /\ [][/\ (pc = "recv" /\ pc' = "final") => (FetcherDone /\ queue = <<>>)
          /\ pc' = "join" => pc \in {"final", "join"}
          /\ (pc = "join" /\ pc' # "join") =>
                pc' = (IF f_pc = "done_ok" THEN "done_ok" ELSE "done_err")]_vars

\* After a failed fetch the consumer has drained the queue, saved the
\* checkpoint of the batches it inserted and waits for the fetcher.
C14_Witness ==
    /\ pc = "join"
    /\ f_pc = "done_err"
    /\ Len(insertedLog) >= 1
    /\ any_checkpoint_updates
    /\ ckpt # ckpt0

\* C15: once run_backfill has returned (the receiver is dropped) a fetcher
\* that holds a batch finds the queue closed at its send and terminates
\* there, with no fetch and nothing queued; every fetcher left behind
\* terminates.
C15_FetcherStopsOnClosedQueue ==
    /\ [][(RxDropped /\ f_pc = "send" /\ f_pc' # "send") =>
            /\ f_pc' = "done_ok"
            /\ fetchLog' = fetchLog
            /\ queue' = queue
            /\ sentLog' = sentLog]_vars
    /\ [][(RxDropped /\ FetcherDone) => (f_pc' = f_pc /\ fetchLog' = fetchLog)]_vars
    /\ ((RxDropped /\ f_pc \in {"loop", "send"}) ~> FetcherDone)

\* insert_fills failed for good while the fetcher held a batch: the fetcher's
\* send failed and it stopped with that batch unsent.
C15_Witness ==
    /\ pc = "done_err"
    /\ attempts >= 1
    /\ f_pc = "done_ok"
    /\ Len(fetchLog) > Len(sentLog)
    /\ Len(sentLog) > Len(insertedLog)

\* The cycle before this point failed: its hour is not the last one inserted.
LastCycleFailed ==
    /\ fetchLog # <<>>
    /\ (insertedLog = <<>> \/ Last(insertedLog) # Last(fetchLog))

\* C16: a cycle whose insert fails (a retryable error) leaves cursor, current
\* start, processed count and persisted checkpoint as they were, the loop
\* waits and then asks for the same hour again; a failed fetch (not
\* retryable) ends run_continuous with that error; after a successful cycle
\* the loop goes on only with a checkpoint saved that carries the batch's
\* next cursor.
C16_ContinuousErrorHandling ==
    /\ [][pc = "c_insert" =>
            /\ pc' \in {"c_insert", "c_ok", "c_sleep", "done_ok"}
            /\ pc' = "c_sleep" =>
                  UNCHANGED <<c_cursor, c_current_start, total_processed, ckpt>>]_vars
    /\ []((pc \in {"select", "c_sleep"} /\ LastCycleFailed) =>
            fetch_page(c_current_start, c_cursor).hour = Last(fetchLog))
    /\ [][(pc = "select" /\ fetchLog' # fetchLog /\ pc' # "c_insert") =>
            (pc' = "done_err" /\ c_result' = "Ingest")]_vars
    /\ [][pc = "c_ok" =>
            /\ pc' \in {"c_ok", "select", "c_sleep", "done_err"}
            /\ pc' \in {"select", "c_sleep"} =>
                  (ckpt'.present /\ ckpt'.cursor = batch.cursor
                   /\ c_cursor' = batch.cursor)]_vars

\* An hour whose insert failed was fetched again and inserted.
C16_Witness ==
    /\ pc = "c_ok"
    /\ Len(fetchLog) >= 2
    /\ fetchLog[Len(fetchLog) - 1] = fetchLog[Len(fetchLog)]
    /\ Last(insertedLog) = Last(fetchLog)

\* C17: run_continuous returns Ok only when the shutdown signal was sent.
C17_OkOnlyOnShutdown ==
    (pc = "done_ok" \/ c_result = "Ok") => (sig = "sent" /\ pc = "done_ok" /\ c_result = "Ok")

\* Ok returned on a signal that came after the loop had caught up and slept.
C17_Witness ==
    /\ pc = "done_ok"
    /\ c_result = "Ok"
    /\ insertedLog # <<>>
    /\ ~batch.has_more

\* C18: once the signal is sent, run_continuous returns cleanly unless a
\* non-retryable error ends it first: a run that ends with an error after the
\* signal ends with an error of a non-retryable kind.
C18_OnlyNonRetryableErrorPreempts ==
    (sig = "sent" /\ pc = "done_err") => c_result \in {"Ingest"}

\* What the loop does guarantee: once the signal is sent run_continuous
\* returns, with Ok or with the error that ended it first, which is a fetch
\* error or a failed load or save of the checkpoint.
ShutdownLiveness ==
    /\ (sig = "sent") ~> (pc \in {"done_ok", "done_err"})
    /\ []((sig = "sent" /\ pc = "done_err") => c_result \in {"Ingest", "Database"})
    /\ [](pc = "done_ok" => c_result = "Ok")

\* The signal came during the 30 s wait after a failed insert and the run
\* ended cleanly.
ShutdownLiveness_Witness ==
    /\ pc = "done_ok"
    /\ sig = "sent"
    /\ LastCycleFailed

\* C19: a fetch of an hour that is not in the archive does not end the run
\* with an error.
C19_MissingHourNotFatal ==
    (fetchLog # <<>> /\ Last(fetchLog) \notin DOMAIN archive) => pc # "done_err"

\* C20: retry_with_backoff decides by the kind of the error: an error that
\* is not of a retryable kind ends the call that returned it (it is the last
\* call, and the wrapper returns it), and the wrapper waits for another
\* attempt only after an error of a retryable kind.
C20_RetryDecidesByKind ==
    /\ \A i \in 1..Len(r_calls) :
          (r_calls[i] # "Ok" /\ ~is_retryable(r_calls[i])) =>
              (i = Len(r_calls) /\ r_pc = "done" /\ r_result = r_calls[i])
    /\ r_pc = "sleep" => is_retryable(Last(r_calls))

Max(a, b) == IF a >= b THEN a ELSE b

\* C21: retry_with_backoff terminates; it calls the operation at least once
\* and at most max(1, max_retries) times, makes no call after an Ok, and
\* returns the result of its last call: the first Ok, or the last error.
C21_RetryTerminates ==
    /\ <>(r_pc = "done")
    /\ [](Len(r_calls) = r_attempts)
    /\ [](Len(r_calls) <= Max(1, r_max_retries))
    /\ [](\A i \in 1..Len(r_calls) :
              r_calls[i] = "Ok" => (i = Len(r_calls) /\ r_pc = "done"))
    /\ [](r_pc = "done" => (Len(r_calls) >= 1 /\ r_result = Last(r_calls)))
    /\ [][r_pc = "done" => UNCHANGED retryVars]_vars

\* Every allowed attempt failed and the last error came back.
C21_Witness ==
    /\ r_pc = "done"
    /\ r_max_retries = max_retries
    /\ Len(r_calls) = max_retries
    /\ r_result \in ErrorKinds
    /\ r_calls[1] # r_result

\* The first tick of the hour a cursor designates.
CursorStart(c) == c.date * DayTicks + c.hour * TicksPerHour

\* C22: the batch fetch_page returns has has_more true exactly when the hour
\* its next cursor designates is not in the future at the time of the call
\* (an hour that starts at that very instant may count either way).
C22_HasMoreIffNextHourNotFuture ==
    p_batch.ok =>
        /\ p_batch.has_more => CursorStart(p_batch.cursor) <= p_clock
        /\ CursorStart(p_batch.cursor) < p_clock => p_batch.has_more

\* C23: the cursor fetch_page returns has an hour in 0..23 and designates the
\* hour after the one fetched; a caller that feeds each cursor back asks for
\* consecutive hours, from the start hour on, each once.
C23_CursorAdvance ==
    /\ p_batch.ok =>
          /\ p_batch.cursor.some
          /\ p_batch.cursor.hour \in 0..(HoursPerDay - 1)
          /\ CursorStart(p_batch.cursor) = HourStart(p_batch.hour + 1)
    /\ \A i \in 1..Len(p_log) : p_log[i] = p_log[1] + (i - 1)
    /\ p_pc = "call" /\ p_log # <<>> => p_batch.hour = Last(p_log)

\* The calls went over midnight: hour 23, then hour 0 of the next day.
C23_Witness ==
    /\ Len(p_log) >= 3
    /\ p_pc = "call"
    /\ p_batch.cursor.date = DayOf(HourStart(FirstHour)) + 1
    /\ p_batch.cursor.hour = 1

Decoded == d_pc \in {"decoded", "stored"}

KnownSide(r) == to_uppercase(r.side) \in {"BUY", "B", "SELL", "S", "A"}

\* The lines without the records whose side is unknown (a NodeFill line is
\* its one record).
KeepKnownSides(line) ==
    IF line.json = "NodeFill"
    THEN IF KnownSide(line.items[1]) THEN line ELSE OtherLine("")
    ELSE [line EXCEPT !.items = SelectSeq(line.items, KnownSide)]

WithoutUnknownSides(lines) == [i \in DOMAIN lines |-> KeepKnownSides(lines[i])]

\* C24: in each schema a record whose side is unknown is skipped alone: the
\* batch is what decoding the same lines without those records gives.
C24_UnknownSideSkippedAlone ==
    Decoded => d_result = parse_fills(WithoutUnknownSides(d_lines), d_date)

BadNumber(str) == str # Absent /\ ~ParseF64(str).ok

\* A line that is no JSON of the date's schema, or holds a price, size, fee
\* or closed_pnl string that is no number.
ParseFailure(line, date) ==
    /\ line.json # ""
    /\ \/ line.json # LineSchema(date)
       \/ line.json = "NodeTrade" /\ (BadNumber(line.px) \/ BadNumber(line.sz))
       \/ \E i \in DOMAIN line.items :
             \/ line.json # "NodeTrade"
                  /\ (BadNumber(line.items[i].px) \/ BadNumber(line.items[i].sz))
             \/ BadNumber(line.items[i].fee)
             \/ BadNumber(line.items[i].closedPnl)

\* C25: a string that is no number, or a line that is no JSON of the schema,
\* aborts the batch: parse_fills returns the validation error and no fill of
\* the hour reaches the store.
C25_ParseFailureAbortsBatch ==
    (Decoded /\ \E i \in DOMAIN d_lines : ParseFailure(d_lines[i], d_date)) =>
        (~d_result.ok /\ fills = <<>>)

GenerationOfPath(path) ==
    CASE path = "node_fills_by_block/hourly" -> "v3"
      [] path = "node_fills/hourly" -> "v2"
      [] path = "node_trades/hourly" -> "v1"
      [] OTHER -> ""

GenerationOfSchema(json) ==
    CASE json = "FillByBlock" -> "v3"
      [] json = "NodeFill" -> "v2"
      [] json = "NodeTrade" -> "v1"
      [] OTHER -> ""

\* C26: the path and the line schema of a date are of one generation: v3 from
\* 2025-07-27T00, v2 from 2025-05-25 to 2025-07-26T23, v1 before; a batch
\* decodes only lines of that generation, whatever the payload holds.
C26_SchemaByDateOnly ==
    Decoded =>
        /\ GenerationOfPath(d_path) =
              (IF d_date >= V3Start THEN "v3"
               ELSE IF d_date >= V2Start THEN "v2" ELSE "v1")
        /\ d_result.ok =>
              \A i \in DOMAIN d_lines :
                 d_lines[i].json # "" =>
                    GenerationOfSchema(d_lines[i].json) = GenerationOfPath(d_path)
        /\ (\A i \in DOMAIN d_lines :
               GenerationOfSchema(d_lines[i].json) \notin {"", GenerationOfPath(d_path)})
              /\ d_lines # <<>> => ~d_result.ok

\* The first hour of v3 decoded a by-block line.
C26_Witness ==
    /\ d_pc = "decoded"
    /\ d_date = V3Start
    /\ d_result.ok
    /\ d_result.fills # <<>>

Accepted(r) ==
    KnownSide(r) /\ ParseF64(r.px).ok /\ ParseF64(r.sz).ok /\ r.time # OutOfRange

\* C27 as stated: the Fills of a line are one per element of events (v3),
\* one (v2), one per side_info element (v1), none for an empty line.
LineCount(line) ==
    CASE line.json = "FillByBlock" -> Len(line.items)
      [] line.json = "NodeFill" -> 1
      [] line.json = "NodeTrade" -> Len(line.items)
      [] OTHER -> 0

RECURSIVE SumOver(_, _)
SumOver(Count(_), lines) ==
    IF lines = <<>> THEN 0 ELSE Count(Head(lines)) + SumOver(Count, Tail(lines))

C27_OneFillPerElement ==
    (Decoded /\ d_result.ok) => Len(d_result.fills) = SumOver(LineCount, d_lines)

AcceptedCount(line) ==
    CASE line.json = "FillByBlock" -> Len(SelectSeq(line.items, Accepted))
      [] line.json = "NodeFill" -> 1
      [] line.json = "NodeTrade" -> Len(line.items)
      [] OTHER -> 0

\* C27 amended: in a batch that decodes, a v3 line yields one Fill per event
\* that parse_fill_data accepts, tagged with the block number; a v2 line one
\* Fill without block number; a v1 line one Fill per side_info element, with
\* the trade's price, size, coin and timestamp; an empty line none.
C27_OneFillPerAcceptedElement ==
    (Decoded /\ d_result.ok) =>
        /\ Len(d_result.fills) = SumOver(AcceptedCount, d_lines)
        /\ \A i \in DOMAIN d_lines :
              LET line == d_lines[i]
                  lf == LineFills(line, d_date).fills
              IN /\ Len(lf) = AcceptedCount(line)
                 /\ line.json = "FillByBlock" =>
                       \A j \in DOMAIN lf : lf[j].block_number = IntV(line.block_number)
                 /\ line.json = "NodeFill" => lf[1].block_number = NullV
                 /\ line.json = "NodeTrade" =>
                       \A j \in DOMAIN lf :
                          /\ lf[j].user_address = line.items[j].user
                          /\ lf[j].price = ParseF64(line.px).v
                          /\ lf[j].size = ParseF64(line.sz).v
                          /\ lf[j].coin = line.coin
                          /\ lf[j].timestamp = line.time
                          /\ lf[j].block_number = NullV

\* A block of three events, the second of unknown side, gave two Fills.
C27_Witness ==
    /\ d_pc = "decoded"
    /\ d_result.ok
    /\ d_lines # <<>>
    /\ d_lines[1].json = "FillByBlock"
    /\ Len(d_lines[1].items) = 3
    /\ ~KnownSide(d_lines[1].items[2])
    /\ Len(d_result.fills) >= 2

Positive(x) == x.k = "fin" /\ x.v > 0

\* C28: every Fill the decoder emits and every row of the fills table has
\* price > 0, size > 0 and side BUY or SELL.
C28_PositivePriceAndSize ==
    /\ (Decoded /\ d_result.ok) =>
          \A i \in DOMAIN d_result.fills :
             /\ Positive(d_result.fills[i].price)
             /\ Positive(d_result.fills[i].size)
             /\ d_result.fills[i].side \in {"BUY", "SELL"}
    /\ \A i \in DOMAIN fills :
          /\ Positive(fills[i].price)
          /\ Positive(fills[i].size)
          /\ fills[i].side \in {"BUY", "SELL"}

\* C29: the refresh is attempted exactly when the inserted count is not 0,
\* and no failure in it, the existence lookup's included, changes what
\* insert_fills returns or keeps a later view from being attempted.
C29_RefreshIsAdvisory ==
    v_pc = "done" =>
        /\ v_result = [ok |-> TRUE, count |-> v_inserted]
        /\ Len(v_log) = (IF v_inserted > 0 THEN NumViews ELSE 0)

\* The hours that meet [start, end).
HoursOfRange(from, to) == HourIndex(from) .. HourIndex(to - 1)

\* C30: get_missing_hours returns exactly the hours that meet [start, end),
\* a partial first or last hour included, and hold fewer than the minimum of
\* rows with timestamp in [start, end).
C30_MissingHoursExact ==
    h_pc = "done" =>
        h_result = {h \in HoursOfRange(h_start, h_end) :
                      Cardinality({i \in RowsIn(fills, h_start, h_end) :
                                      HourIndex(fills[i].timestamp) = h}) < MIN_HOUR_ROWS}

\* ------------------------------------------------------------ market claims

\* C31: every call of get_or_create_market for one market_id returns the same
\* id, the id of the market's row, on a cache hit and on a miss, with callers
\* interleaved and with upserts of the market before, between and after the
\* calls; the cache holds no other id.
C31_MarketIdStable ==
    \A m \in MarketIds :
        /\ \A r \in g_ids[m] : r[1] = g_table[m].id /\ r[1] # 0
        /\ g_cache[m] \in {0, g_table[m].id}
        /\ \A c \in Callers :
              (g_pc[c] = "refresh" /\ g_arg[c] = m) => g_id[c] = g_table[m].id

\* A market returned on a hit by one caller while another caller, who missed
\* it, was still inside its call, with an upsert of the market between the
\* two returns.
C31_Witness ==
    \E m \in MarketIds :
        /\ \E r \in g_ids[m] : r[2]
        /\ g_last.market = m /\ ~g_last.hit /\ g_last.ok
        /\ g_table[m].symbol = "name-USD"

\* C32: a call that missed the cache and whose refresh failed returns Ok with
\* the id the stored routine returned.
C32_RefreshFailureNotFatal ==
    g_last.refresh = "failed" =>
        /\ g_last.ok
        /\ g_last.routine # 0
        /\ g_last.id = g_last.routine

\* A miss whose refresh failed has returned.
C32_Witness ==
    /\ g_last.refresh = "failed"
    /\ ~g_last.hit
    /\ g_last.ok
    /\ g_last.id = g_table[g_last.market].id

\* C33: when a call that missed the cache has returned an id, the market is
\* in the cache.
C33_CachedAfterMiss ==
    (~g_last.hit /\ g_last.ok) => g_cache[g_last.market] # 0

\* ------------------------------------------------------------- stats claims

\* C34: queue_update can be called in every state of a running updater and
\* returns Ok(()); a call that finds the mailbox full leaves it as it was; the
\* mailbox never holds more than MAILBOX_CAPACITY requests.
C34_PublishNeverBlocks ==
    /\ Len(a_mailbox) <= MAILBOX_CAPACITY
    /\ (a_owner = "running" /\ a_published < MaxPublishes) => ENABLED queue_update
    /\ a_last.outcome # "none" => a_last.returned = "Ok"
    /\ a_last.outcome = "Full" => a_last.unchanged
    /\ Len(a_accepted) =
           a_processed.count + Len(a_mailbox) + (IF a_w \in {"hours", "fanout"} THEN 1 ELSE 0)

\* A request has been dropped on a full mailbox.
C34_Witness ==
    /\ a_last.outcome = "Full"
    /\ Len(a_mailbox) = MAILBOX_CAPACITY
    /\ a_published > Len(a_accepted)

\* C35: a request whose affected hours were found has every one of them
\* recomputed to its end, whichever of them failed; the worker takes the
\* requests in the order they were accepted, whatever became of the earlier
\* ones; no more than HOUR_CONCURRENCY recomputations run at a time.
C35_FailureIsolation ==
    /\ Cardinality(a_running) <= HOUR_CONCURRENCY
    /\ a_processed.count > 0 =>
          /\ a_processed.count <= Len(a_accepted)
          /\ a_processed.request = a_accepted[a_processed.count]
          /\ a_processed.queried =>
                a_processed.hours =
                    get_affected_hours_static(fills, a_processed.request[1],
                                              a_processed.request[2])
    /\ a_w = "recv" => (a_pending = {} /\ a_running = {})

\* After a request that failed as a whole, the worker has finished a request
\* of which one hour failed and the others were recomputed.
C35_Witness ==
    /\ "request" \in a_processed.earlier
    /\ a_processed.queried
    /\ a_processed.failed # {}
    /\ a_processed.hours \ a_processed.failed # {}
    /\ Cardinality(a_processed.hours) > HOUR_CONCURRENCY

\* C36: once shutdown has closed the mailbox, the worker exits and shutdown
\* returns; when the worker exits, it has processed every request that was
\* accepted, those queued at the close included.
C36_ShutdownDrains ==
    /\ a_closed ~> (a_w = "exited" /\ a_owner = "returned")
    /\ [](a_w = "exited" =>
            /\ a_closed
            /\ a_mailbox = <<>>
            /\ a_processed.count = Len(a_accepted))

\* shutdown has returned after a close that found requests in the mailbox.
C36_Witness ==
    /\ a_owner = "returned"
    /\ a_atClose > 0
    /\ a_processed.count = Len(a_accepted)

\* ---------------------------------------------------------- chunking claims

\* The ranges of a sequence follow one another from first on, none empty and
\* none longer than size.
InOrder(ranges, first, size) ==
    \A i \in DOMAIN ranges :
        /\ ranges[i][1] = (IF i = 1 THEN first ELSE ranges[i - 1][2] + 1)
        /\ ranges[i][1] <= ranges[i][2]
        /\ ranges[i][2] - ranges[i][1] + 1 <= size

\* C37: the chunks insert_fills passes on follow one another in input order
\* from the first fill, each of at most 50,000 rows, and when the call
\* returns Ok they end at the last fill: every fill is in exactly one chunk.
\* On the VALUES path the statements of a chunk follow one another inside
\* the chunk, each of at most 5,000 rows and 11 parameters a row, at most
\* 55,000 and below the limit of 65,535, each in a transaction of its own,
\* committed before the next begins; a VALUES path that returns has covered
\* the chunk.
C37_ChunkingBounds ==
    /\ InOrder(k_chunks, 1, ChunkRows)
    /\ k_result = "Ok" =>
          IF k_len = 0 THEN k_chunks = <<>>
          ELSE k_chunks # <<>> /\ k_chunks[Len(k_chunks)][2] = k_len
    /\ k_pc = "values" =>
          /\ InOrder([i \in DOMAIN k_stmts |-> <<k_stmts[i].from, k_stmts[i].to>>],
                     Head(k_todo)[1], BatchRows)
          /\ k_batches = <<>> => (k_stmts # <<>> /\
                                  k_stmts[Len(k_stmts)].to = Head(k_todo)[2])
    /\ \A i \in DOMAIN k_stmts :
          /\ k_stmts[i].params = ParamsPerRow * (k_stmts[i].to - k_stmts[i].from + 1)
          /\ k_stmts[i].params <= ParamsPerRow * BatchRows
          /\ k_stmts[i].params < MaxParams
          /\ k_stmts[i].to <= k_len
          /\ i < Len(k_stmts) =>
                (k_stmts[i].committed /\ k_stmts[i].tx < k_stmts[i + 1].tx)

\* A call on a slice of three chunks has returned Ok, its last full chunk
\* sent by the VALUES path in statements of 5,000 rows.
C37_Witness ==
    /\ k_result = "Ok"
    /\ Len(k_chunks) = 3
    /\ k_chunks[1] = <<1, ChunkRows>>
    /\ Len(k_stmts) = ChunkRows \div BatchRows
    /\ \A i \in DOMAIN k_stmts : k_stmts[i].params = ParamsPerRow * BatchRows

\* --------------------------------------------------------- pipeline claims II

\* The cursor a batch of archive hour h carries: the hour after h.
NextCursorOf(h) == Cursor((h + 1) \div HoursPerDay, (h + 1) % HoursPerDay)

\* The place of the first fetch of hour h.
FirstFetchOf(h) == CHOOSE j \in DOMAIN fetchLog : fetchLog[j] = h /\
                                                  \A k \in 1..(j - 1) : fetchLog[k] # h

\* C38: a checkpoint row saved by the run carries the next-cursor of a batch
\* that insert_fills has accepted, every hour fetched before that batch's has
\* been accepted before it, and the row's timestamp is that of a committed
\* row or the time the run started from.
C38_CheckpointNotAhead ==
    ckpt # ckpt0 =>
        /\ \E i \in DOMAIN insertedLog :
              /\ ckpt.cursor = NextCursorOf(insertedLog[i])
              /\ insertedLog[i] \in {fetchLog[j] : j \in DOMAIN fetchLog}
              /\ \A j \in 1..(FirstFetchOf(insertedLog[i]) - 1) :
                    fetchLog[j] \in {insertedLog[m] : m \in 1..i}
        /\ ckpt.last_record_ts.some
        /\ \/ \E n \in DOMAIN fills : fills[n].timestamp = ckpt.last_record_ts.v
           \/ ckpt.last_record_ts.v = start_from
           \/ ckpt0.last_record_ts = ckpt.last_record_ts

\* A checkpoint has been saved for the second batch accepted while a later
\* hour has been fetched and not accepted.
C38_Witness ==
    /\ ckpt # ckpt0
    /\ Len(insertedLog) >= 2
    /\ Len(fetchLog) > Len(insertedLog)
    /\ ckpt.cursor = NextCursorOf(insertedLog[Len(insertedLog)])

\* -------------------------------------------------------------- cursor claim

\* C39: whatever cursor string fetch_page is given, it does not panic: a
\* cursor that is no date and hour makes it start from start_from or return a
\* Validation error.
C39_NoPanicOnCursor ==
    q_pc = "done" =>
        /\ q_result.kind # "panic"
        /\ (q_cursor.some /\ ParseCursor(q_cursor).kind # "cursor") =>
              q_result.kind \in {"start_from", "Validation", "Ingest"}

\* ---------------------------------------------------------- termination claim

\* C40: run_backfill terminates.  The fetcher's loop ends (end reached,
\* has_more false, queue closed, or a fetch error), the consumer leaves its
\* loop only when the fetcher has ended and the queue is drained, and
\* run_backfill returns; from then on neither task is waiting.
C40_BackfillTerminates ==
    /\ <>[](RxDropped /\ f_pc \notin {"loop", "send"})
    /\ [](pc \in {"final", "join"} => FetcherDone /\ queue = <<>>)
    /\ [](pc = "done_ok" => f_pc = "done_ok" /\ queue = <<>>)

\* A run over an empty hour that has returned Ok, its fetcher ended, after
\* the fetcher had to wait for room in the queue.
C40_Witness ==
    /\ pc = "done_ok"
    /\ f_pc = "done_ok"
    /\ Len(sentLog) >= 2
    /\ \E i \in DOMAIN sentLog : sentLog[i] \in DOMAIN archive /\ archive[sentLog[i]] = <<>>
====
